---- MODULE Spec2Model ----
(***************************************************************************)
(* Model of the strudel CLI: the song version store (storage.ts), its     *)
(* directory lock (withLock) and the daemon supervisor (client.ts).       *)
(*                                                                         *)
(* Strings are sequences of characters; offsets are 0-based as in the     *)
(* source. Time is a discrete clock `now` counted in ticks of TickMs      *)
(* milliseconds.                                                           *)
(***************************************************************************)
EXTENDS Integers, Sequences, FiniteSets, TLC

\* ------------------------------------------------------------------ bounds

\* Longest code text a version may hold (operations that would exceed it are
\* not issued).
MaxCodeLen == 4
\* Longest search text passed as --from.
MaxFromLen == 2
\* Longest replacement text passed as --to.
MaxToLen == 1
\* Most versions the songs file holds, over all songs.
MaxVersions == 3
\* Largest --index value tried.
MaxIndex == 3
\* Last clock tick of the store's clock.
MaxTime == 1
\* Last clock tick while commands contend for a lock.
MaxLockTime == 1
\* Number of CLI processes running at once.
NProcs == 2
\* Last clock tick while the daemon serves requests.
MaxPlayTime == 1
\* Most daemon processes ever spawned.
MaxDaemons == 2
\* Last clock tick while commands wait for a daemon.
MaxDaemonTime == 3

\* The daemon's idle time runs to MaxIdleTime ticks of IdleTickMs.
MaxIdleTime == 3

\* A sequence command has up to MaxSteps steps.
MaxSteps == 2

\* ------------------------------------------------------- program constants

\* const LOCK_TIMEOUT = 5000; // 5 seconds max wait
LOCK_TIMEOUT == 5000

\* export const HEALTH_POLL_INTERVAL_MS = 200;
HEALTH_POLL_INTERVAL_MS == 200
\* export const HEALTH_POLL_MAX_ATTEMPTS = 75; // 15 seconds total
HEALTH_POLL_MAX_ATTEMPTS == 75
INACTIVITY_TIMEOUT_MS == 30 * 60 * 1000

\* The length of a clock tick, in milliseconds: just over the lock timeout.
TickMs == LOCK_TIMEOUT + 1

\* ------------------------------------------------------------------ values

Alphabet == {"a", "b"}
Names == {"s1", "s2"}

\* A name every JavaScript object inherits from Object.prototype: the songs
\* object read by JSON.parse has a value under it without having it as a key.
InheritedNames == {"constructor"}
AnyNames == Names \cup InheritedNames

RECURSIVE StringsUpTo(_)
StringsUpTo(n) ==
  IF n = 0 THEN {<< >>}
  ELSE LET shorter == StringsUpTo(n - 1)
       IN shorter \cup {Append(s, c) : s \in {x \in shorter : Len(x) = n - 1}, c \in Alphabet}

\* An optional number argument (index?: number, version?: number): absent,
\* an integer, or a number that is no integer (NaN, 1.5).
Undefined == [kind |-> "undefined", val |-> 0]
Integer(n) == [kind |-> "integer", val |-> n]
NonInteger == [kind |-> "nonInteger", val |-> 0]

\* new Date().toISOString(): the ISO-8601 text of the instant; the text is
\* represented by the tick it denotes.
ToISOString(t) == t

\* ---------------------------------------------------------- string helpers

Min(a, b) == IF a < b THEN a ELSE b
Max(a, b) == IF a > b THEN a ELSE b

\* String.prototype.substring(a, b): 0-based, half-open, arguments clamped
\* to 0..length and swapped when a > b.
Substring(s, a, b) ==
  LET ca == Max(0, Min(a, Len(s)))
      cb == Max(0, Min(b, Len(s)))
      lo == Min(ca, cb)
      hi == Max(ca, cb)
  IN SubSeq(s, lo + 1, hi)

\* s.substring(a): to the end of the string.
SubstringFrom(s, a) == Substring(s, a, Len(s))

\* Whether `from` occurs in `code` at 0-based offset p.
OccursAt(code, from, p) ==
  /\ p >= 0
  /\ p + Len(from) <= Len(code)
  /\ SubSeq(code, p + 1, p + Len(from)) = from

\* String.prototype.indexOf(from, pos): the least offset >= pos at which
\* `from` occurs, or -1.
RECURSIVE IndexOf(_, _, _)
IndexOf(code, from, pos) ==
  LET p == Max(0, pos)
  IN IF Len(from) = 0 THEN Min(p, Len(code))
     ELSE IF p + Len(from) > Len(code) THEN -1
     ELSE IF OccursAt(code, from, p) THEN p
     ELSE IndexOf(code, from, p + 1)

\* ------------------------------------------------------------ stored data

\* SongsData { songs: Record<string, Song> }, Song { versions: SongVersion[] },
\* SongVersion { code, createdAt }.
EmptyData == [songs |-> << >>]
SongVersion(code, t) == [code |-> code, createdAt |-> ToISOString(t)]
\* The song is a key of the collection (an own property of data.songs).
OwnSong(data, name) == name \in DOMAIN data.songs

\* data.songs[name] is truthy: the name is a key, or it is inherited.
HasSong(data, name) == OwnSong(data, name) \/ name \in InheritedNames

\* The songs file: absent until the first save.
NoFile == [exists |-> FALSE, data |-> EmptyData]

\* loadSongs: an absent file reads as the empty collection.
LoadSongs(f) == IF ~f.exists THEN EmptyData ELSE f.data

\* saveSongs: the whole document is overwritten.
SaveSongs(data) == [exists |-> TRUE, data |-> data]

\* data.songs[name] = song
PutSong(data, name, song) ==
  [songs |-> [n \in (DOMAIN data.songs) \cup {name} |->
                IF n = name THEN song ELSE data.songs[n]]]

\* delete data.songs[name]
RemoveSong(data, name) ==
  [songs |-> [n \in (DOMAIN data.songs) \ {name} |-> data.songs[n]]]

\* The outcome of one storage call: the error thrown ("none" on success), the
\* match count an error message reports, and the fields of the value returned.
Result(err, count, code, version, total, createdAt) ==
  [err |-> err, count |-> count, code |-> code, version |-> version,
   total |-> total, createdAt |-> createdAt]
Failure(err, count) == Result(err, count, << >>, 0, 0, 0)

\* What the function passed to withLock does with the loaded data: the data
\* to save (when `save`), and the call's result.
Outcome(save, data, res) == [save |-> save, data |-> data, res |-> res]

\* ------------------------------------------------------------- makeSong

\* The body of makeSong under the lock.
MakeBody(data, name, code, t) ==
  IF HasSong(data, name)
  THEN Outcome(FALSE, data, Failure("AlreadyExists", 0))
  ELSE Outcome(TRUE,
               PutSong(data, name, [versions |-> <<SongVersion(code, t)>>]),
               Result("none", 0, code, 0, 0, ToISOString(t)))

\* ------------------------------------------------------------ updateSong

\* A variant of the argument check that forgets the sign of --index.
ValidateUpdateArgsNoSign(from, index) ==
  IF Len(from) = 0 THEN "InvalidArgument"
  ELSE IF index.kind # "undefined" /\ index.kind # "integer" THEN "InvalidArgument"
  ELSE "ok"

\* The checks updateSong makes before it takes the lock: an empty --from, and
\* an --index that is no non-negative integer.
ValidateUpdateArgs(from, index) ==
  IF Len(from) = 0 THEN "InvalidArgument"
  ELSE IF index.kind # "undefined"
          /\ (index.kind # "integer" \/ index.val < 0) THEN "InvalidArgument"
  ELSE "ok"

\* A variant of the match loop's step that skips the whole match:
\* searchPos = idx + from.length.
NextSearchPosSkip(idx, from) == idx + Len(from)

\* searchPos = idx + 1
NextSearchPos(idx, from) == idx + 1

\* The match loop: every indexOf hit from searchPos on, in the order found.
RECURSIVE FindMatches(_, _, _, _)
FindMatches(code, from, searchPos, matches) ==
  LET idx == IndexOf(code, from, searchPos)
  IN IF idx = -1 THEN matches
     ELSE FindMatches(code, from, NextSearchPos(idx, from), Append(matches, idx))

\* index ?? 0
TargetIndex(index) == IF index.kind = "undefined" THEN 0 ELSE index.val

\* A variant without the multiple-match check: the first match wins.
IsAmbiguousNever(matches, index) == FALSE

\* Whether the multiple-match check throws.
IsAmbiguous(matches, index) == Len(matches) > 1 /\ index.kind = "undefined"

\* Whether the range check on the target index throws.
IsOutOfRange(targetIndex, matches) ==
  targetIndex < 0 \/ targetIndex >= Len(matches)

\* A variant of the replacement that resumes after to.length characters.
ReplaceAtToLen(code, pos, from, to) ==
  Substring(code, 0, pos) \o to \o SubstringFrom(code, pos + Len(to))

\* code.substring(0, pos) + to + code.substring(pos + from.length)
ReplaceAt(code, pos, from, to) ==
  Substring(code, 0, pos) \o to \o SubstringFrom(code, pos + Len(from))

\* A variant that overwrites the latest version instead of appending.
PushVersionInPlace(song, version) ==
  [versions |-> Append(SubSeq(song.versions, 1, Len(song.versions) - 1), version)]

\* song.versions.push(newVersion)
PushVersion(song, version) == [versions |-> Append(song.versions, version)]

\* The body of updateSong under the lock.
UpdateBody(data, name, from, to, index, t) ==
  IF ~HasSong(data, name)
  THEN Outcome(FALSE, data, Failure("NotFound", 0))
  ELSE IF ~OwnSong(data, name)
  THEN \* song.versions is undefined: reading its length throws
       Outcome(FALSE, data, Failure("TypeError", 0))
  ELSE
    LET song == data.songs[name]
        latest == song.versions[Len(song.versions)]
        matches == FindMatches(latest.code, from, 0, << >>)
        targetIndex == TargetIndex(index)
    IN IF Len(matches) = 0
       THEN Outcome(FALSE, data, Failure("NoMatch", 0))
       ELSE IF IsAmbiguous(matches, index)
       THEN Outcome(FALSE, data, Failure("AmbiguousMatch", Len(matches)))
       ELSE IF IsOutOfRange(targetIndex, matches)
       THEN Outcome(FALSE, data, Failure("IndexOutOfRange", Len(matches)))
       ELSE
         LET pos == matches[targetIndex + 1]
             code == ReplaceAt(latest.code, pos, from, to)
             grown == PushVersion(song, SongVersion(code, t))
         IN Outcome(TRUE, PutSong(data, name, grown),
                    Result("none", Len(matches), code, Len(grown.versions),
                           Len(grown.versions), ToISOString(t)))

\* ------------------------------------------------------------ deleteSong

\* The body of deleteSong under the lock.
DeleteBody(data, name) ==
  IF ~HasSong(data, name)
  THEN Outcome(FALSE, data, Failure("NotFound", 0))
  ELSE Outcome(TRUE, RemoveSong(data, name), Failure("none", 0))

\* ------------------------------------------------------------ detailSong

\* A variant of the default that reads the first version.
VersionIndexFirst(version, totalVersions) ==
  IF version.kind = "integer" /\ version.val # 0 THEN version.val - 1 ELSE 0

\* version ? version - 1 : totalVersions - 1 (0 and NaN are falsy).
VersionIndex(version, totalVersions) ==
  IF version.kind = "integer" /\ version.val # 0
  THEN version.val - 1
  ELSE totalVersions - 1

\* detailSong: reads without the lock.
DetailSong(f, name, version) ==
  LET data == LoadSongs(f)
  IN IF ~HasSong(data, name) THEN Failure("NotFound", 0)
     ELSE IF ~OwnSong(data, name)
     THEN \* song.versions is undefined: reading its length throws
          Failure("TypeError", 0)
     ELSE
       LET song == data.songs[name]
           totalVersions == Len(song.versions)
           versionIndex == VersionIndex(version, totalVersions)
       IN IF versionIndex < 0 \/ versionIndex >= totalVersions
          THEN Failure("VersionOutOfRange", 0)
          ELSE LET sv == song.versions[versionIndex + 1]
               IN Result("none", 0, sv.code, versionIndex + 1, totalVersions,
                         sv.createdAt)

\* listSongs: Object.keys(data.songs), read without the lock.
ListSongs(f) == DOMAIN LoadSongs(f).songs

\* ---------------------------------------------------------- promoteVersion

\* A variant that moves the requested version to the end instead of copying
\* it: the version list keeps its length.
PromoteBodyMove(data, name, version, t) ==
  IF ~OwnSong(data, name)
  THEN Outcome(FALSE, data, Failure("NotFound", 0))
  ELSE
    LET song == data.songs[name]
        total == Len(song.versions)
    IN IF version < 1 \/ version > total
       THEN Outcome(FALSE, data, Failure("VersionOutOfRange", 0))
       ELSE LET code == song.versions[version].code
                rest == SubSeq(song.versions, 1, version - 1)
                          \o SubSeq(song.versions, version + 1, total)
                moved == [versions |-> Append(rest, SongVersion(code, t))]
            IN Outcome(TRUE, PutSong(data, name, moved),
                       Result("none", version, code, total + 1, total + 1,
                              ToISOString(t)))

\* The body of promoteVersion under the lock: the code of the requested
\* version is appended as a new latest version.
PromoteBody(data, name, version, t) ==
  IF ~OwnSong(data, name)
  THEN Outcome(FALSE, data, Failure("NotFound", 0))
  ELSE
    LET song == data.songs[name]
        total == Len(song.versions)
    IN IF version < 1 \/ version > total
       THEN Outcome(FALSE, data, Failure("VersionOutOfRange", 0))
       ELSE LET code == song.versions[version].code
                grown == PushVersion(song, SongVersion(code, t))
            IN Outcome(TRUE, PutSong(data, name, grown),
                       Result("none", version, code, Len(grown.versions),
                              Len(grown.versions), ToISOString(t)))

\* --------------------------------------------------------------- renameSong

\* A variant that copies the song to the new key and keeps the old one.
RenameBodyCopy(data, oldName, newName) ==
  IF ~OwnSong(data, oldName)
  THEN Outcome(FALSE, data, Failure("NotFound", 0))
  ELSE IF OwnSong(data, newName)
  THEN Outcome(FALSE, data, Failure("AlreadyExists", 0))
  ELSE Outcome(TRUE, PutSong(data, newName, data.songs[oldName]),
               Failure("none", 0))

\* The body of renameSong under the lock: the song entry moves to the new
\* key with its versions.
RenameBody(data, oldName, newName) ==
  IF ~OwnSong(data, oldName)
  THEN Outcome(FALSE, data, Failure("NotFound", 0))
  ELSE IF OwnSong(data, newName)
  THEN Outcome(FALSE, data, Failure("AlreadyExists", 0))
  ELSE Outcome(TRUE,
               RemoveSong(PutSong(data, newName, data.songs[oldName]), oldName),
               Failure("none", 0))

\* ------------------------------------------------------------------ state

VARIABLES
  file,   \* the songs file (SONGS_FILE)
  now,    \* the clock, in ticks
  last,   \* the storage call that ran last, with its arguments and result
  prev,   \* the songs file as it was before that call
  hist,   \* per song name: the creation code and the successful updates since
  cmd     \* the CLI command that runs store and daemon calls in turn

VARIABLES
  lock,   \* per lock path: the marker directory
  pc,     \* per CLI process: where it is in its call
  req,    \* per CLI process: the call it runs
  start,  \* per CLI process: withLock's `start`
  pend,   \* per CLI process: what its function under the lock computed
  ret     \* per CLI process: the error its call threw, "none" when it returned

VARIABLES
  pidFile,  \* the pid recorded in PID_FILE, 0 when there is no file
  daemons,  \* per pid: the daemon process with that pid
  child,    \* per CLI process: the pid startDaemon spawned, 0 before
  info      \* per CLI process: the pid ensureDaemon returned, 0 before

VARIABLES
  state,            \* the daemon's PlaybackState (let state: DaemonState)
  engine,           \* what the audio engine does, and the code it evaluated last
  inactivityTimer,  \* when the timer the daemon holds the handle of was set
  timers,           \* the pending inactivity timeouts, each by when it was set
  hreq,             \* per request handler: the request it is in the middle of
  status            \* per request handler: the request it answered last, and how

storeVars == <<last, prev, hist, cmd>>
playVars == <<state, engine, inactivityTimer, timers, hreq, status>>
lockVars == <<lock, pc, req, start, pend, ret>>
daemonVars == <<pidFile, daemons, child, info>>
vars ==
  <<file, now, last, prev, hist, cmd, lock, pc, req, start, pend, ret, pidFile,
    daemons, child, info, state, engine, inactivityTimer, timers, hreq,
    status>>

Procs == 1 .. NProcs

\* A storage call and its result.
Call(op, name, code, from, to, arg, r) ==
  [op |-> op, name |-> name, code |-> code, from |-> from, to |-> to,
   arg |-> arg, res |-> r]
NoCall == Call("none", "", << >>, << >>, << >>, Undefined, Failure("none", 0))

\* The call a CLI process makes.
Request(op, name, code, from, to, arg) ==
  [op |-> op, name |-> name, code |-> code, from |-> from, to |-> to, arg |-> arg]
NoRequest == Request("none", "", << >>, << >>, << >>, Undefined)

\* The song has no history to speak of: it is absent, or an operation other
\* than makeSong and updateSong has run on it.
NoHist == [valid |-> FALSE, c0 |-> << >>, n |-> 0, code |-> << >>]

\* No marker; `by` and `at` tell who made a marker and when.
NoLock == [exists |-> FALSE, by |-> 0, at |-> 0]
NoOutcome == Outcome(FALSE, EmptyData, Failure("none", 0))

\* No command of several calls runs: `steps` and `i` are the version list of
\* a sequence command and the step it is at, `code` and `version` what its
\* last store call returned, `t0` the song's version count when it began.
NoCommand ==
  [op |-> "none", name |-> "", steps |-> << >>, i |-> 0, code |-> << >>,
   version |-> 0, t0 |-> 0, pc |-> "idle", exit |-> 0, report |-> "none"]

\* No command has been run one at a time.
StoreIdle ==
  /\ last = NoCall
  /\ prev = NoFile
  /\ hist = [n \in Names |-> NoHist]
  /\ cmd = NoCommand

\* The two lock directories: of the songs file and of the daemon launch.
SONGS_LOCK == "songs.lock"
DAEMON_LOCK == "daemon.lock"
LockPaths == {SONGS_LOCK, DAEMON_LOCK}

\* The pids daemon processes get, in the order they are spawned.
DaemonIds == 1 .. MaxDaemons

\* No process has this pid; `at` is when a starting daemon was spawned and
\* `late` tells that it became ready after the health-poll budget.
NoDaemon == [state |-> "none", at |-> 0, late |-> FALSE]

\* No daemon has been spawned and no CLI process has asked for one.
DaemonIdle ==
  /\ pidFile = 0
  /\ daemons = [d \in DaemonIds |-> NoDaemon]
  /\ child = [p \in Procs |-> 0]
  /\ info = [p \in Procs |-> 0]

\* Optional fields of a request body and of PlaybackState: a name, a code
\* text, or nothing.
NoName == [kind |-> "undefined", val |-> ""]
Name(n) == [kind |-> "string", val |-> n]
NoCode == [kind |-> "undefined", val |-> << >>]
Code(c) == [kind |-> "string", val |-> c]
\* A code field that is a number (not zero), not a string.
NumberCode == [kind |-> "number", val |-> << >>]

\* let state: DaemonState = { state: 'stopped' }
Stopped ==
  [state |-> "stopped", name |-> NoName, version |-> Undefined, code |-> NoCode]

\* The engine after createEngine: nothing evaluated, nothing playing.
NoEngine == [run |-> "stopped", code |-> NoCode]

\* The handlers that can be in the middle of a request at once.
Handlers == {"h1", "h2"}
NoBody == [code |-> NoCode, name |-> NoName, version |-> Undefined]
NoHandler == [op |-> "none", body |-> NoBody]
NoStatus == [op |-> "none", code |-> 0]

\* The daemon has just started: nothing plays and no request is being handled.
PlayIdle ==
  /\ state = Stopped
  /\ engine = NoEngine
  /\ inactivityTimer = 0
  /\ timers = {0}
  /\ hreq = [h \in Handlers |-> NoHandler]
  /\ status = [h \in Handlers |-> NoStatus]

\* No CLI process runs.
LockIdle ==
  /\ lock = [l \in LockPaths |-> NoLock]
  /\ pc = [p \in Procs |-> "idle"]
  /\ req = [p \in Procs |-> NoRequest]
  /\ start = [p \in Procs |-> 0]
  /\ pend = [p \in Procs |-> NoOutcome]
  /\ ret = [p \in Procs |-> "none"]

InitStore ==
  /\ file = NoFile
  /\ now = 0
  /\ StoreIdle
  /\ LockIdle
  /\ DaemonIdle
  /\ PlayIdle

\* The number of versions a collection holds, over all its songs.
RECURSIVE CountVersions(_, _)
CountVersions(data, names) ==
  IF names = {} THEN 0
  ELSE LET n == CHOOSE x \in names : TRUE
       IN Len(data.songs[n].versions) + CountVersions(data, names \ {n})
TotalVersions(data) == CountVersions(data, DOMAIN data.songs)

\* The file after the function run under withLock: saved when it saves.
Apply(out) == IF out.save THEN SaveSongs(out.data) ELSE file

\* Time passes.
Tick ==
  /\ now < MaxTime
  /\ now' = now + 1
  /\ UNCHANGED <<file, last, prev, hist, cmd>>
  /\ UNCHANGED <<lockVars, daemonVars, playVars>>

\* makeSong(name, code), run alone.
MakeSong(name, code) ==
  LET out == MakeBody(LoadSongs(file), name, code, now)
  IN /\ out.save => TotalVersions(out.data) <= MaxVersions
     /\ file' = Apply(out)
     /\ prev' = file
     /\ last' = Call("make", name, code, << >>, << >>, Undefined, out.res)
     /\ hist' = IF out.save
                THEN [hist EXCEPT ![name] =
                        [valid |-> TRUE, c0 |-> code, n |-> 0, code |-> code]]
                ELSE hist
     /\ UNCHANGED <<now, cmd, lockVars, daemonVars, playVars>>

\* updateSong(name, from, to, index), run alone.
UpdateSong(name, from, to, index) ==
  LET chk == ValidateUpdateArgs(from, index)
      out == IF chk = "ok"
             THEN UpdateBody(LoadSongs(file), name, from, to, index, now)
             ELSE Outcome(FALSE, EmptyData, Failure(chk, 0))
  IN /\ out.save =>
          /\ Len(out.res.code) <= MaxCodeLen
          /\ TotalVersions(out.data) <= MaxVersions
     /\ file' = Apply(out)
     /\ prev' = file
     /\ last' = Call("update", name, << >>, from, to, index, out.res)
     /\ hist' = IF out.save /\ hist[name].valid
                THEN [hist EXCEPT ![name].n = @ + 1, ![name].code = out.res.code]
                ELSE hist
     /\ UNCHANGED <<now, cmd, lockVars, daemonVars, playVars>>

\* deleteSong(name), run alone.
DeleteSong(name) ==
  LET out == DeleteBody(LoadSongs(file), name)
  IN /\ file' = Apply(out)
     /\ prev' = file
     /\ last' = Call("delete", name, << >>, << >>, << >>, Undefined, out.res)
     /\ hist' = IF out.save /\ name \in Names
                THEN [hist EXCEPT ![name] = NoHist]
                ELSE hist
     /\ UNCHANGED <<now, cmd, lockVars, daemonVars, playVars>>

\* promoteVersion(name, version), run alone.
PromoteVersion(name, version) ==
  LET out == PromoteBody(LoadSongs(file), name, version, now)
  IN /\ out.save => TotalVersions(out.data) <= MaxVersions
     /\ file' = Apply(out)
     /\ prev' = file
     /\ last' = Call("promote", name, << >>, << >>, << >>, Integer(version), out.res)
     /\ hist' = IF out.save THEN [hist EXCEPT ![name] = NoHist] ELSE hist
     /\ UNCHANGED <<now, cmd, lockVars, daemonVars, playVars>>

\* The new name given to renameSong, as the call's argument.
NewName(name) == [kind |-> "name", val |-> name]

\* renameSong(oldName, newName), run alone.
RenameSong(oldName, newName) ==
  LET out == RenameBody(LoadSongs(file), oldName, newName)
  IN /\ file' = Apply(out)
     /\ prev' = file
     /\ last' = Call("rename", oldName, << >>, << >>, << >>, NewName(newName),
                     out.res)
     /\ hist' = IF out.save
                THEN [hist EXCEPT ![oldName] = NoHist, ![newName] = NoHist]
                ELSE hist
     /\ UNCHANGED <<now, cmd, lockVars, daemonVars, playVars>>

\* detailSong(name, version): a read.
Detail(name, version) ==
  /\ last' = Call("detail", name, << >>, << >>, << >>, version,
                  DetailSong(file, name, version))
  /\ prev' = file
  /\ UNCHANGED <<file, now, hist, cmd, lockVars, daemonVars, playVars>>

\* The arguments tried on the store: one-character codes, so that what
\* varies is the collection's structure.
StoreCodes == {<<c>> : c \in Alphabet}
StoreIndexes == {Undefined, Integer(0)}
Versions == {Undefined, NonInteger} \cup {Integer(v) : v \in -1 .. MaxVersions + 1}

\* The command that made the last call has reported its result and exited.
Return ==
  /\ last # NoCall
  /\ last' = NoCall
  /\ prev' = NoFile
  /\ UNCHANGED <<file, now, hist, cmd, lockVars, daemonVars, playVars>>

\* Commands run one at a time: the next starts when the last has exited.
NextStore ==
  \/ last = NoCall /\ Tick
  \/ last = NoCall /\ \E name \in AnyNames, code \in StoreCodes : MakeSong(name, code)
  \/ last = NoCall /\
       \E name \in AnyNames, from \in StoreCodes, to \in StoreCodes, index \in StoreIndexes :
         UpdateSong(name, from, to, index)
  \/ last = NoCall /\ \E name \in AnyNames : DeleteSong(name)
  \/ last = NoCall /\
       \E name \in Names, version \in 0 .. MaxVersions + 1 : PromoteVersion(name, version)
  \/ last = NoCall /\ \E oldName \in Names, newName \in Names : RenameSong(oldName, newName)
  \/ last = NoCall /\ \E name \in AnyNames, version \in Versions : Detail(name, version)
  \/ Return

SpecStore == InitStore /\ [][NextStore]_vars

\* ------------------------------------------------- updateSong on any text

\* The arguments tried on updateSong: every text up to the bounds.
Codes == StringsUpTo(MaxCodeLen)
Froms == StringsUpTo(MaxFromLen)
Tos == StringsUpTo(MaxToLen)
Indexes == {Undefined, NonInteger} \cup {Integer(i) : i \in -1 .. MaxIndex}

\* A collection holding one song, as makeSong("s1", code) leaves it.
InitUpdate ==
  \E code \in Codes :
    /\ file = SaveSongs(MakeBody(EmptyData, "s1", code, 0).data)
    /\ now = 0
    /\ last = NoCall
    /\ prev = NoFile
    /\ hist = [n \in Names |->
                 IF n = "s1"
                 THEN [valid |-> TRUE, c0 |-> code, n |-> 0, code |-> code]
                 ELSE NoHist]
    /\ cmd = NoCommand
    /\ LockIdle
    /\ DaemonIdle
    /\ PlayIdle

\* One call per run.
NextUpdate ==
  /\ last = NoCall
  /\ \E name \in Names, from \in Froms, to \in Tos, index \in Indexes :
       UpdateSong(name, from, to, index)

SpecUpdate == InitUpdate /\ [][NextUpdate]_vars

\* ------------------------------------------------------------- withLock

\* Date.now() - start > LOCK_TIMEOUT
ExpiredWait(startTime, t) == (t - startTime) * TickMs > LOCK_TIMEOUT

\* The marker mkdir(lockPath) creates.
Marker(p, t) == [exists |-> TRUE, by |-> p, at |-> t]

\* The function a storage call runs under the lock, on the loaded data.
Body(call, data, t) ==
  CASE call.op = "make" -> MakeBody(data, call.name, call.code, t)
    [] call.op = "update" ->
         UpdateBody(data, call.name, call.from, call.to, call.arg, t)
    [] call.op = "delete" -> DeleteBody(data, call.name)

\* A variant in which no call checks its arguments before withLock.
PreCheckNone(call) == "ok"

\* What a mutating call checks before withLock: updateSong its arguments,
\* makeSong and deleteSong nothing.
PreCheck(call) ==
  IF call.op = "update" THEN ValidateUpdateArgs(call.from, call.arg) ELSE "ok"

\* The lock a call takes: ensureDaemon the daemon lock, the storage calls
\* the songs lock.
LockPath(call) == IF call.op = "ensure" THEN DAEMON_LOCK ELSE SONGS_LOCK

\* withLock begins: const start = Date.now(), and mkdir(lockPath) is tried
\* for the first time, at that same instant.
Enter(p, lockPath) ==
  /\ start' = [start EXCEPT ![p] = now]
  /\ IF lock[lockPath].exists
     THEN /\ pc' = [pc EXCEPT ![p] = "mkdir"]
          /\ UNCHANGED lock
     ELSE /\ pc' = [pc EXCEPT ![p] = "fn"]
          /\ lock' = [lock EXCEPT ![lockPath] = Marker(p, now)]

\* A CLI process starts a mutating call: it fails on its arguments, or
\* enters withLock(SONGS_LOCK, ...).
Begin(p, call) ==
  /\ pc[p] = "idle"
  /\ req' = [req EXCEPT ![p] = call]
  /\ IF PreCheck(call) # "ok"
     THEN /\ pc' = [pc EXCEPT ![p] = "done"]
          /\ ret' = [ret EXCEPT ![p] = PreCheck(call)]
          /\ UNCHANGED <<start, lock>>
     ELSE /\ Enter(p, SONGS_LOCK)
          /\ UNCHANGED ret
  /\ UNCHANGED <<file, now, pend, storeVars, daemonVars, playVars>>

\* A later mkdir(lockPath), after the 50 ms sleep or the rm of a stale
\* marker, succeeds: the lock is taken.
Mkdir(p) ==
  /\ pc[p] = "mkdir"
  /\ ~lock[LockPath(req[p])].exists
  /\ lock' = [lock EXCEPT ![LockPath(req[p])] = Marker(p, now)]
  /\ pc' = [pc EXCEPT ![p] = "fn"]
  /\ UNCHANGED <<file, now, req, start, pend, ret, storeVars, daemonVars, playVars>>

\* mkdir fails with EEXIST within the timeout: the process sleeps 50 ms.
MkdirBusy(p) ==
  /\ pc[p] = "mkdir"
  /\ lock[LockPath(req[p])].exists
  /\ ~ExpiredWait(start[p], now)
  /\ UNCHANGED vars

\* A variant of the loop without the takeover: after the timeout the process
\* goes on sleeping and polling.
MkdirTimedOutSleep(p) ==
  /\ pc[p] = "mkdir"
  /\ lock[LockPath(req[p])].exists
  /\ ExpiredWait(start[p], now)
  /\ UNCHANGED vars

\* mkdir fails with EEXIST after the timeout: the marker is taken for stale.
MkdirTimedOut(p) ==
  /\ pc[p] = "mkdir"
  /\ lock[LockPath(req[p])].exists
  /\ ExpiredWait(start[p], now)
  /\ pc' = [pc EXCEPT ![p] = "rm"]
  /\ UNCHANGED <<file, now, lock, req, start, pend, ret, storeVars, daemonVars, playVars>>

\* await rm(lockPath, {recursive, force}) of the marker taken for stale; the
\* loop continues with the next mkdir.
ForceClear(p) ==
  /\ pc[p] = "rm"
  /\ lock' = [lock EXCEPT ![LockPath(req[p])] = NoLock]
  /\ pc' = [pc EXCEPT ![p] = "mkdir"]
  /\ UNCHANGED <<file, now, req, start, pend, ret, storeVars, daemonVars, playVars>>

\* fn() up to its save: loadSongs and the change in memory. A call that
\* throws goes to the finally block.
RunFn(p) ==
  LET out == Body(req[p], LoadSongs(file), now)
  IN /\ pc[p] = "fn"
     /\ req[p].op # "ensure"
     /\ IF out.save
        THEN /\ pc' = [pc EXCEPT ![p] = "save"]
             /\ pend' = [pend EXCEPT ![p] = out]
             /\ UNCHANGED ret
        ELSE /\ pc' = [pc EXCEPT ![p] = "release"]
             /\ ret' = [ret EXCEPT ![p] = out.res.err]
             /\ UNCHANGED pend
     /\ UNCHANGED <<file, now, lock, req, start, storeVars, daemonVars, playVars>>

\* await saveSongs(data); fn returns.
Save(p) ==
  /\ pc[p] = "save"
  /\ file' = SaveSongs(pend[p].data)
  /\ ret' = [ret EXCEPT ![p] = pend[p].res.err]
  /\ pend' = [pend EXCEPT ![p] = NoOutcome]
  /\ pc' = [pc EXCEPT ![p] = "release"]
  /\ UNCHANGED <<now, lock, req, start, storeVars, daemonVars, playVars>>

\* A variant without the finally block: the marker is removed only when fn
\* has returned, and a throw leaves it behind.
ReleaseOnReturn(p) ==
  /\ pc[p] = "release"
  /\ lock' = IF ret[p] = "none"
             THEN [lock EXCEPT ![LockPath(req[p])] = NoLock]
             ELSE lock
  /\ pc' = [pc EXCEPT ![p] = "done"]
  /\ start' = [start EXCEPT ![p] = 0]
  /\ UNCHANGED <<file, now, req, pend, ret, storeVars, daemonVars, playVars>>

\* finally: await rm(lockPath, {recursive, force}); withLock's locals are gone.
Release(p) ==
  /\ pc[p] = "release"
  /\ lock' = [lock EXCEPT ![LockPath(req[p])] = NoLock]
  /\ pc' = [pc EXCEPT ![p] = "done"]
  /\ start' = [start EXCEPT ![p] = 0]
  /\ UNCHANGED <<file, now, req, pend, ret, storeVars, daemonVars, playVars>>

\* Time passes while processes contend.
LockTick ==
  /\ now < MaxLockTime
  /\ now' = now + 1
  /\ UNCHANGED <<file, lockVars, storeVars, daemonVars, playVars>>

\* The file after makeSong("s1", "a").
FreshFile == SaveSongs(MakeBody(EmptyData, "s1", <<"a">>, 0).data)

\* The calls the processes make: on one song, an update that can be repeated.
LockCalls ==
  {Request("make", "s1", <<"a">>, << >>, << >>, Undefined),
   Request("delete", "s1", << >>, << >>, << >>, Undefined)}
  \cup {Request("update", "s1", << >>, from, <<"a", "b">>, Undefined) :
          from \in {<< >>, <<"a">>}}

InitLock ==
  /\ file \in {NoFile, FreshFile}
  /\ now = 0
  /\ StoreIdle
  /\ LockIdle
  /\ DaemonIdle
  /\ PlayIdle

NextLock ==
  \/ LockTick
  \/ \E p \in Procs, call \in LockCalls : Begin(p, call)
  \/ \E p \in Procs : Mkdir(p)
  \/ \E p \in Procs : MkdirBusy(p)
  \/ \E p \in Procs : MkdirTimedOut(p)
  \/ \E p \in Procs : ForceClear(p)
  \/ \E p \in Procs : RunFn(p)
  \/ \E p \in Procs : Save(p)
  \/ \E p \in Procs : Release(p)

SpecLock == InitLock /\ [][NextLock]_vars

\* ------------------------------------------- one command after another

\* A command has exited and the next one is started: a new CLI process,
\* which knows nothing of the last.
Again(p) ==
  /\ pc[p] = "done"
  /\ pc' = [pc EXCEPT ![p] = "idle"]
  /\ req' = [req EXCEPT ![p] = NoRequest]
  /\ ret' = [ret EXCEPT ![p] = "none"]
  /\ UNCHANGED <<file, now, lock, start, pend, storeVars, daemonVars, playVars>>

\* The calls of the commands: the song is made and deleted, over and over.
StaleCalls ==
  {Request("make", "s1", <<"a">>, << >>, << >>, Undefined),
   Request("delete", "s1", << >>, << >>, << >>, Undefined)}

\* Processes contend for the songs lock, each running command after command.
NextStale ==
  \/ LockTick
  \/ \E p \in Procs, call \in StaleCalls : Begin(p, call)
  \/ \E p \in Procs : Mkdir(p)
  \/ \E p \in Procs : MkdirBusy(p)
  \/ \E p \in Procs : MkdirTimedOut(p)
  \/ \E p \in Procs : ForceClear(p)
  \/ \E p \in Procs : RunFn(p)
  \/ \E p \in Procs : Save(p)
  \/ \E p \in Procs : Release(p)
  \/ \E p \in Procs : Again(p)

SpecStale == InitLock /\ [][NextStale]_vars

\* ------------------------------------------------- a holder that is killed

\* The process is between mkdir and the rm of the finally block.
Holding(p) == pc[p] \in {"fn", "save", "release"}

\* The process is in withLock's loop, before its mkdir has succeeded.
Waiting(p) == pc[p] \in {"mkdir", "rm"}

\* The holder is killed (SIGKILL, power loss): nothing of it runs any more,
\* the finally block included, and its marker stays.
Kill(p) ==
  /\ Holding(p)
  /\ pc' = [pc EXCEPT ![p] = "killed"]
  /\ pend' = [pend EXCEPT ![p] = NoOutcome]
  /\ start' = [start EXCEPT ![p] = 0]
  /\ UNCHANGED <<file, now, lock, req, ret, storeVars, daemonVars, playVars>>

\* The steps of one process inside withLock.
LockStep(p) ==
  \/ Mkdir(p)
  \/ MkdirBusy(p)
  \/ MkdirTimedOut(p)
  \/ ForceClear(p)
  \/ RunFn(p)
  \/ Save(p)
  \/ Release(p)

\* Processes contend for the songs lock and a holder may be killed. A call
\* begins while the clock can still run past its timeout.
NextCrash ==
  \/ LockTick
  \/ \E p \in Procs, call \in LockCalls : now < MaxLockTime /\ Begin(p, call)
  \/ \E p \in Procs : LockStep(p)
  \/ \E p \in Procs : Kill(p)

SpecCrash == InitLock /\ [][NextCrash]_vars

\* Time passes and every live process is scheduled: its pending await
\* (mkdir, the 50 ms sleep, rm, the file system calls of fn) completes.
SpecCrashFair ==
  /\ SpecCrash
  /\ WF_vars(LockTick)
  /\ \A p \in Procs : WF_vars(Mkdir(p) \/ MkdirTimedOut(p) \/ ForceClear(p)
                                \/ RunFn(p) \/ Save(p) \/ Release(p))

\* ------------------------------------------------- updateSong that fails

\* The file after makeSong("s1", "aa"): `a` occurs twice in the latest code.
TwiceFile == SaveSongs(MakeBody(EmptyData, "s1", <<"a", "a">>, 0).data)

\* updateSong calls that fail in each of the five ways on TwiceFile, and one
\* that succeeds.
FailCalls ==
  {Request("update", "s1", << >>, << >>, <<"b">>, Undefined),
   Request("update", "s2", << >>, <<"a">>, <<"b">>, Undefined),
   Request("update", "s1", << >>, <<"b">>, <<"b">>, Undefined),
   Request("update", "s1", << >>, <<"a">>, <<"b">>, Undefined),
   Request("update", "s1", << >>, <<"a">>, <<"b">>, Integer(2)),
   Request("update", "s1", << >>, <<"a">>, <<"b">>, Integer(0))}

InitFail ==
  /\ file = TwiceFile
  /\ now = 0
  /\ StoreIdle
  /\ LockIdle
  /\ DaemonIdle
  /\ PlayIdle

NextFail ==
  \/ LockTick
  \/ \E p \in Procs, call \in FailCalls : Begin(p, call)
  \/ \E p \in Procs : Mkdir(p)
  \/ \E p \in Procs : MkdirBusy(p)
  \/ \E p \in Procs : MkdirTimedOut(p)
  \/ \E p \in Procs : ForceClear(p)
  \/ \E p \in Procs : RunFn(p)
  \/ \E p \in Procs : Save(p)
  \/ \E p \in Procs : Release(p)

SpecFail == InitFail /\ [][NextFail]_vars

\* --------------------------------------------------------- ensureDaemon

\* process.kill(pid, 0) succeeds: a daemon has the pid, or ("foreign") a
\* process that is no daemon has got it.
IsProcessAlive(pid) ==
  /\ pid \in DaemonIds
  /\ daemons[pid].state \in {"starting", "ready", "cleanup", "closing", "foreign"}

\* A variant of the health request that always answers.
HealthOkAny(pid) == pid \in DaemonIds

\* GET /health on the recorded port answers: the daemon that wrote the
\* record listens.
HealthOk(pid) ==
  pid \in DaemonIds /\ daemons[pid].state \in {"ready", "cleanup", "closing"}

\* readPidFile, isProcessAlive and the health request: the recorded pid if
\* that daemon is alive and answers, 0 otherwise.
HealthyDaemon ==
  IF pidFile # 0 /\ IsProcessAlive(pidFile) /\ HealthOk(pidFile)
  THEN pidFile
  ELSE 0

\* isDaemonRunning: the same three checks, as a boolean.
IsDaemonRunning == HealthyDaemon # 0

\* The call of a CLI process that needs the daemon.
EnsureRequest == Request("ensure", "", << >>, << >>, << >>, Undefined)

\* The pids not yet given to a process, and the one the next spawn gets.
FreePids == {d \in DaemonIds : daemons[d].state = "none"}
NextPid == CHOOSE d \in FreePids : \A e \in FreePids : d <= e

\* The health polls startDaemon has made of the daemon spawned at `at`: one
\* every HEALTH_POLL_INTERVAL_MS.
PollsMade(at, t) == ((t - at) * TickMs) \div HEALTH_POLL_INTERVAL_MS

\* ensureDaemon begins: a healthy recorded daemon is returned, otherwise the
\* process enters withLock(DAEMON_LOCK, ...).
EnsureDaemon(p) ==
  /\ pc[p] = "idle"
  /\ req' = [req EXCEPT ![p] = EnsureRequest]
  /\ IF HealthyDaemon # 0
     THEN /\ pc' = [pc EXCEPT ![p] = "done"]
          /\ info' = [info EXCEPT ![p] = HealthyDaemon]
          /\ UNCHANGED <<start, lock>>
     ELSE /\ Enter(p, DAEMON_LOCK)
          /\ UNCHANGED info
  /\ UNCHANGED <<file, now, pend, ret, pidFile, daemons, child, storeVars, playVars>>

\* The function under the daemon lock: the recheck returns a daemon that has
\* become healthy meanwhile, otherwise startDaemon spawns a detached process
\* and starts polling.
Recheck(p) ==
  /\ pc[p] = "fn"
  /\ req[p].op = "ensure"
  /\ IF HealthyDaemon # 0
     THEN /\ info' = [info EXCEPT ![p] = HealthyDaemon]
          /\ pc' = [pc EXCEPT ![p] = "release"]
          /\ UNCHANGED <<daemons, child>>
     ELSE /\ FreePids # {}
          /\ LET pid == NextPid
             IN /\ daemons' = [daemons EXCEPT
                                 ![pid] = [state |-> "starting", at |-> now,
                                           late |-> FALSE]]
                /\ child' = [child EXCEPT ![p] = pid]
          /\ pc' = [pc EXCEPT ![p] = "poll"]
          /\ UNCHANGED info
  /\ UNCHANGED <<file, now, lock, req, start, pend, ret, pidFile, storeVars, playVars>>

\* A round of startDaemon's loop finds a healthy recorded daemon and returns
\* its record.
PollHealthy(p) ==
  /\ pc[p] = "poll"
  /\ PollsMade(daemons[child[p]].at, now) < HEALTH_POLL_MAX_ATTEMPTS
  /\ HealthyDaemon # 0
  /\ info' = [info EXCEPT ![p] = HealthyDaemon]
  /\ pc' = [pc EXCEPT ![p] = "release"]
  /\ UNCHANGED <<file, now, lock, req, start, pend, ret, pidFile, daemons,
                 child, storeVars, playVars>>

\* A round of the loop finds no healthy daemon and polls remain: the process
\* sleeps HEALTH_POLL_INTERVAL_MS.
PollAgain(p) ==
  /\ pc[p] = "poll"
  /\ PollsMade(daemons[child[p]].at, now) < HEALTH_POLL_MAX_ATTEMPTS
  /\ HealthyDaemon = 0
  /\ UNCHANGED vars

\* A variant of the end of the loop in which the throw skips withLock's
\* finally block.
PollGiveUpHolding(p) ==
  /\ pc[p] = "poll"
  /\ PollsMade(daemons[child[p]].at, now) >= HEALTH_POLL_MAX_ATTEMPTS
  /\ ret' = [ret EXCEPT ![p] = "DaemonStartFailed"]
  /\ pc' = [pc EXCEPT ![p] = "done"]
  /\ UNCHANGED <<file, now, lock, req, start, pend, daemonVars, storeVars, playVars>>

\* The loop ends after HEALTH_POLL_MAX_ATTEMPTS polls: startDaemon throws.
PollGiveUp(p) ==
  /\ pc[p] = "poll"
  /\ PollsMade(daemons[child[p]].at, now) >= HEALTH_POLL_MAX_ATTEMPTS
  /\ ret' = [ret EXCEPT ![p] = "DaemonStartFailed"]
  /\ pc' = [pc EXCEPT ![p] = "release"]
  /\ UNCHANGED <<file, now, lock, req, start, pend, daemonVars, storeVars, playVars>>

\* ------------------------------------------------------------ daemon main

\* The health-poll budget of a spawned daemon has run out by time t.
BudgetSpent(at, t) ==
  (t - at) * TickMs >= HEALTH_POLL_MAX_ATTEMPTS * HEALTH_POLL_INTERVAL_MS

\* main: the engine is created, the server listens, and the PID file is
\* written over whatever record was there.
DaemonReady(d) ==
  /\ daemons[d].state = "starting"
  /\ daemons' = [daemons EXCEPT
                   ![d] = [state |-> "ready", at |-> 0,
                           late |-> BudgetSpent(daemons[d].at, now)]]
  /\ pidFile' = d
  /\ UNCHANGED <<file, now, child, info, lockVars, storeVars, playVars>>

\* main: createEngine fails and the process exits with code 1.
DaemonExit(d) ==
  /\ daemons[d].state = "starting"
  /\ daemons' = [daemons EXCEPT ![d] = [state |-> "dead", at |-> 0, late |-> FALSE]]
  /\ UNCHANGED <<file, now, pidFile, child, info, lockVars, storeVars, playVars>>

\* Time passes while commands wait for a daemon.
DaemonTick ==
  /\ now < MaxDaemonTime
  /\ now' = now + 1
  /\ UNCHANGED <<file, lockVars, storeVars, daemonVars, playVars>>

\* No daemon runs: none was ever started, or the last one crashed and left
\* its record behind, and then its pid is free or another process has it.
InitDaemon ==
  /\ file = NoFile
  /\ now = 0
  /\ StoreIdle
  /\ LockIdle
  /\ PlayIdle
  /\ child = [p \in Procs |-> 0]
  /\ info = [p \in Procs |-> 0]
  /\ \/ /\ pidFile = 0
        /\ daemons = [d \in DaemonIds |-> NoDaemon]
     \/ \E gone \in {"dead", "foreign"} :
          /\ pidFile = 1
          /\ daemons = [d \in DaemonIds |->
                          IF d = 1 THEN [state |-> gone, at |-> 0, late |-> FALSE]
                          ELSE NoDaemon]

NextDaemon ==
  \/ DaemonTick
  \/ \E p \in Procs : EnsureDaemon(p)
  \/ \E p \in Procs : Mkdir(p)
  \/ \E p \in Procs : MkdirBusy(p)
  \/ \E p \in Procs : MkdirTimedOut(p)
  \/ \E p \in Procs : ForceClear(p)
  \/ \E p \in Procs : Recheck(p)
  \/ \E p \in Procs : PollHealthy(p)
  \/ \E p \in Procs : PollAgain(p)
  \/ \E p \in Procs : PollGiveUp(p)
  \/ \E p \in Procs : Release(p)
  \/ \E d \in DaemonIds : DaemonReady(d)
  \/ \E d \in DaemonIds : DaemonExit(d)

SpecDaemon == InitDaemon /\ [][NextDaemon]_vars

\* ------------------------------------------------- daemon request handlers

\* The pid of the daemon whose handlers run.
DaemonPid == 1

\* The daemon has started, listens, and has not exited: during cleanup the
\* server still takes requests.
Serving == daemons[DaemonPid].state \in {"ready", "cleanup", "closing"}

\* A variant of the check with the typeof test alone: an empty string passes.
IsCodeTyped(code) == code.kind = "string"

\* !code || typeof code !== 'string' is false: the code is a non-empty string.
IsCode(code) == code.kind = "string" /\ Len(code.val) > 0

\* name || x and version || x: an empty name and version 0 are falsy.
NameOr(name, x) == IF name.kind = "string" /\ name.val # "" THEN name ELSE x
VersionOr(version, x) ==
  IF version.kind = "integer" /\ version.val # 0 THEN version ELSE x

\* engine.stop(), engine.pause() and a successful engine.evaluate(code).
EngineStop(e) == [e EXCEPT !.run = "stopped"]
EnginePause(e) == [e EXCEPT !.run = IF @ = "playing" THEN "paused" ELSE @]
EngineEvaluate(e, code) == [run |-> "playing", code |-> code]

\* A variant of resetInactivityTimer without clearTimeout.
ResetInactivityTimerNoClear ==
  /\ inactivityTimer' = now
  /\ timers' = timers \cup {now}

\* resetInactivityTimer: the pending timer is cleared and a new one is set.
ResetInactivityTimer ==
  /\ inactivityTimer' = now
  /\ timers' = (timers \ {inactivityTimer}) \cup {now}

\* json(res, status, ...): the handler responds and is done.
Respond(h, op, code) ==
  /\ status' = [status EXCEPT ![h] = [op |-> op, code |-> code]]
  /\ hreq' = [hreq EXCEPT ![h] = NoHandler]

\* A variant of handlePlay's commit that keeps the prior name and version
\* when the request has none.
PlayStateKeep(body) ==
  [state |-> "playing",
   name |-> NameOr(body.name, state.name),
   version |-> VersionOr(body.version, state.version),
   code |-> body.code]

\* state = { state: 'playing', name: name || undefined,
\*           version: version || undefined, code }
PlayState(body) ==
  [state |-> "playing",
   name |-> NameOr(body.name, NoName),
   version |-> VersionOr(body.version, Undefined),
   code |-> body.code]

\* handlePlay up to its await of engine.evaluate: a body without code is
\* refused with 400; otherwise what plays is stopped and the evaluation of
\* the new code begins.
PlayBegin(h, body) ==
  /\ Serving
  /\ hreq[h].op = "none"
  /\ IF ~IsCode(body.code)
     THEN /\ Respond(h, "play", 400)
          /\ UNCHANGED engine
     ELSE /\ hreq' = [hreq EXCEPT ![h] = [op |-> "play", body |-> body]]
          /\ status' = [status EXCEPT ![h] = NoStatus]
          /\ engine' = IF state.state = "playing" THEN EngineStop(engine) ELSE engine
  /\ UNCHANGED <<state, inactivityTimer, timers>>

\* A /play request from any client arrives.
PlayStart(h, body) ==
  /\ PlayBegin(h, body)
  /\ UNCHANGED <<file, now, lockVars, storeVars, daemonVars>>

\* A variant of handlePlay's catch block that records the request although
\* its evaluation failed.
PlayFailedCommit(body) == PlayState(body)

\* handlePlay's catch block: the error is logged and answered, and state is
\* not assigned.
PlayFailed(body) == state

\* handlePlay from the end of engine.evaluate: on success the new state is
\* committed and the inactivity timer reset; on failure 500 is answered.
PlayFinish(h, ok) ==
  /\ Serving
  /\ hreq[h].op = "play"
  /\ IF ok
     THEN /\ engine' = EngineEvaluate(engine, hreq[h].body.code)
          /\ state' = PlayState(hreq[h].body)
          /\ ResetInactivityTimer
          /\ Respond(h, "play", 200)
     ELSE /\ state' = PlayFailed(hreq[h].body)
          /\ Respond(h, "play", 500)
          /\ UNCHANGED <<engine, inactivityTimer, timers>>
  /\ UNCHANGED <<file, now, lockVars, storeVars, daemonVars>>

\* A variant of handleStop that keeps the song's name.
StopStateKeepName == [Stopped EXCEPT !.name = state.name]

\* state = { state: 'stopped' }
StopState == Stopped

\* handleStop: engine.stop(), the state is cleared, 200 is answered.
HandleStop(h) ==
  /\ Serving
  /\ hreq[h].op = "none"
  /\ engine' = EngineStop(engine)
  /\ state' = StopState
  /\ ResetInactivityTimer
  /\ Respond(h, "stop", 200)
  /\ UNCHANGED <<file, now, lockVars, storeVars, daemonVars>>

\* A variant of handlePause that marks the state paused whatever it was.
PauseStateAlways == [state EXCEPT !.state = "paused"]

\* if (state.state === 'playing') state = { ...state, state: 'paused' }
PauseState ==
  IF state.state = "playing" THEN [state EXCEPT !.state = "paused"] ELSE state

\* handlePause: engine.pause(), a playing state becomes paused, 200 is
\* answered.
HandlePause(h) ==
  /\ Serving
  /\ hreq[h].op = "none"
  /\ engine' = EnginePause(engine)
  /\ state' = PauseState
  /\ ResetInactivityTimer
  /\ Respond(h, "pause", 200)
  /\ UNCHANGED <<file, now, lockVars, storeVars, daemonVars>>

\* A variant of handleEvaluate's commit that drops the prior name and version
\* when the request has none.
EvaluateStateClear(body) ==
  [state |-> "playing",
   name |-> NameOr(body.name, NoName),
   version |-> VersionOr(body.version, Undefined),
   code |-> body.code]

\* state = { state: 'playing', name: name || state.name,
\*           version: version || state.version, code }
EvaluateState(body) ==
  [state |-> "playing",
   name |-> NameOr(body.name, state.name),
   version |-> VersionOr(body.version, state.version),
   code |-> body.code]

\* handleEvaluate up to its await of engine.evaluate: a body without code is
\* refused with 400; the engine is not stopped.
EvaluateBegin(h, body) ==
  /\ Serving
  /\ hreq[h].op = "none"
  /\ IF ~IsCode(body.code)
     THEN Respond(h, "evaluate", 400)
     ELSE /\ hreq' = [hreq EXCEPT ![h] = [op |-> "evaluate", body |-> body]]
          /\ status' = [status EXCEPT ![h] = NoStatus]
  /\ UNCHANGED <<state, engine, inactivityTimer, timers>>

\* A /evaluate request from any client arrives.
EvaluateStart(h, body) ==
  /\ EvaluateBegin(h, body)
  /\ UNCHANGED <<file, now, lockVars, storeVars, daemonVars>>

\* handleEvaluate from the end of engine.evaluate.
EvaluateFinish(h, ok) ==
  /\ Serving
  /\ hreq[h].op = "evaluate"
  /\ IF ok
     THEN /\ engine' = EngineEvaluate(engine, hreq[h].body.code)
          /\ state' = EvaluateState(hreq[h].body)
          /\ ResetInactivityTimer
          /\ Respond(h, "evaluate", 200)
     ELSE /\ Respond(h, "evaluate", 500)
          /\ UNCHANGED <<state, engine, inactivityTimer, timers>>
  /\ UNCHANGED <<file, now, lockVars, storeVars, daemonVars>>

\* Time passes while the daemon serves.
PlayTick ==
  /\ now < MaxPlayTime
  /\ now' = now + 1
  /\ UNCHANGED <<file, lockVars, storeVars, daemonVars, playVars>>

\* The request bodies tried: a code text with name and version both missing,
\* both falsy (an empty name, version 0), both given, or only the version
\* given; and with a name and a version, the code missing, empty, or a number.
BodyCodes == {Code(<<"a">>), Code(<<"b">>)}
BodyNames == {NoName, Name(""), Name("s1")}
BodyVersions == {Undefined, Integer(0), Integer(1)}
NotCodes == {NoCode, Code(<< >>), NumberCode}
Bodies ==
  {b \in [code : BodyCodes, name : BodyNames, version : BodyVersions] :
     \/ b.name = NoName /\ b.version \in {Undefined, Integer(1)}
     \/ b.name = Name("") /\ b.version = Integer(0)
     \/ b.name = Name("s1") /\ b.version = Integer(1)}
    \cup [code : NotCodes, name : {Name("s1")}, version : {Integer(1)}]

\* The daemon has started: main has written the PID file and set the timer.
InitPlay ==
  /\ file = NoFile
  /\ now = 0
  /\ StoreIdle
  /\ LockIdle
  /\ PlayIdle
  /\ child = [p \in Procs |-> 0]
  /\ info = [p \in Procs |-> 0]
  /\ pidFile = DaemonPid
  /\ daemons = [d \in DaemonIds |->
                  IF d = DaemonPid
                  THEN [state |-> "ready", at |-> 0, late |-> FALSE]
                  ELSE NoDaemon]

NextPlay ==
  \/ PlayTick
  \/ \E h \in Handlers, body \in Bodies : PlayStart(h, body)
  \/ \E h \in Handlers, ok \in BOOLEAN : PlayFinish(h, ok)
  \/ \E h \in Handlers : HandleStop(h)
  \/ \E h \in Handlers : HandlePause(h)
  \/ \E h \in Handlers, body \in Bodies : EvaluateStart(h, body)
  \/ \E h \in Handlers, ok \in BOOLEAN : EvaluateFinish(h, ok)

SpecPlay == InitPlay /\ [][NextPlay]_vars

\* --------------------------------------------------------- daemon shutdown

\* While the daemon idles, a tick of the clock is half the inactivity timeout.
IdleTickMs == INACTIVITY_TIMEOUT_MS \div 2

\* setTimeout(..., INACTIVITY_TIMEOUT_MS): the timer set at t is due.
TimerDue(t) == (now - t) * IdleTickMs >= INACTIVITY_TIMEOUT_MS

\* A variant of handleValidate that tries the code by evaluating it.
HandleValidateEvaluate(h, body) ==
  /\ Serving
  /\ hreq[h].op = "none"
  /\ Respond(h, "validate", IF IsCode(body.code) THEN 200 ELSE 400)
  /\ engine' = IF IsCode(body.code) THEN EngineEvaluate(engine, body.code) ELSE engine
  /\ UNCHANGED <<state, inactivityTimer, timers>>
  /\ UNCHANGED <<file, now, lockVars, storeVars, daemonVars>>

\* handleValidate: a body without code is refused with 400; otherwise
\* engine.validate(code) is answered with 200, valid or not. The inactivity
\* timer is not touched.
HandleValidate(h, body) ==
  /\ Serving
  /\ hreq[h].op = "none"
  /\ Respond(h, "validate", IF IsCode(body.code) THEN 200 ELSE 400)
  /\ UNCHANGED <<state, engine, inactivityTimer, timers>>
  /\ UNCHANGED <<file, now, lockVars, storeVars, daemonVars>>

\* handleHealth: 200 with the pid.
HandleHealth(h) ==
  /\ Serving
  /\ hreq[h].op = "none"
  /\ Respond(h, "health", 200)
  /\ UNCHANGED <<state, engine, inactivityTimer, timers>>
  /\ UNCHANGED <<file, now, lockVars, storeVars, daemonVars>>

\* handleCurrent: 200 with a copy of state.
HandleCurrent(h) ==
  /\ Serving
  /\ hreq[h].op = "none"
  /\ Respond(h, "current", 200)
  /\ UNCHANGED <<state, engine, inactivityTimer, timers>>
  /\ UNCHANGED <<file, now, lockVars, storeVars, daemonVars>>

\* cleanup up to its await of unlink: engine.stop(). A cleanup that begins
\* while another one is under way stops the engine once more.
Cleanup ==
  /\ engine' = EngineStop(engine)
  /\ daemons' = [daemons EXCEPT
                   ![DaemonPid].state = IF @ = "ready" THEN "cleanup" ELSE @]

\* A variant of the timer callback that spares a daemon that plays.
InactivityTimeoutIdle(t) ==
  /\ state.state # "playing"
  /\ Serving
  /\ t \in timers
  /\ TimerDue(t)
  /\ timers' = timers \ {t}
  /\ Cleanup
  /\ UNCHANGED <<file, now, pidFile, child, info, state, inactivityTimer, hreq,
                 status, lockVars, storeVars>>

\* The callback of the inactivity timer set at t runs: cleanup begins.
InactivityTimeout(t) ==
  /\ Serving
  /\ t \in timers
  /\ TimerDue(t)
  /\ timers' = timers \ {t}
  /\ Cleanup
  /\ UNCHANGED <<file, now, pidFile, child, info, state, inactivityTimer, hreq,
                 status, lockVars, storeVars>>

\* The process ends: its timers, its handlers and its audio end with it.
ProcessExit(how) ==
  /\ daemons' = [daemons EXCEPT ![DaemonPid].state = how]
  /\ timers' = {}
  /\ hreq' = [h \in Handlers |-> NoHandler]
  /\ engine' = EngineStop(engine)
  /\ UNCHANGED <<file, now, child, info, state, inactivityTimer, status,
                 lockVars, storeVars>>

\* A variant of the signal handlers: the signal's default action ends the
\* process at once.
SignalKill ==
  /\ Serving
  /\ ProcessExit("exited")
  /\ UNCHANGED pidFile

\* SIGTERM or SIGINT arrives after main has installed its handlers: cleanup
\* begins.
Signal ==
  /\ Serving
  /\ Cleanup
  /\ UNCHANGED <<file, now, pidFile, child, info, state, inactivityTimer,
                 timers, hreq, status, lockVars, storeVars>>

\* cleanup: unlink(PID_FILE) removes the PID file, whatever it records.
CleanupUnlink ==
  /\ daemons[DaemonPid].state = "cleanup"
  /\ pidFile' = 0
  /\ daemons' = [daemons EXCEPT ![DaemonPid].state = "closing"]
  /\ UNCHANGED <<file, now, child, info, playVars, lockVars, storeVars>>

\* cleanup from the end of unlink: server.close(), and process.exit(0) in
\* the caller.
CleanupExit ==
  /\ daemons[DaemonPid].state = "closing"
  /\ ProcessExit("exited")
  /\ UNCHANGED pidFile

\* Time passes while the daemon idles.
IdleTick ==
  /\ now < MaxIdleTime
  /\ now' = now + 1
  /\ UNCHANGED <<file, lockVars, storeVars, daemonVars, playVars>>

\* One handler at a time, and two request bodies: one with code, one without.
IdleHandlers == {"h1"}
IdleBodies ==
  {[code |-> Code(<<"a">>), name |-> Name("s1"), version |-> Integer(1)],
   [code |-> NoCode, name |-> Name("s1"), version |-> Integer(1)]}

NextIdle ==
  \/ IdleTick
  \/ \E h \in IdleHandlers, body \in IdleBodies : PlayStart(h, body)
  \/ \E h \in IdleHandlers, ok \in BOOLEAN : PlayFinish(h, ok)
  \/ \E h \in IdleHandlers : HandleStop(h)
  \/ \E h \in IdleHandlers : HandlePause(h)
  \/ \E h \in IdleHandlers, body \in IdleBodies : EvaluateStart(h, body)
  \/ \E h \in IdleHandlers, ok \in BOOLEAN : EvaluateFinish(h, ok)
  \/ \E h \in IdleHandlers, body \in IdleBodies : HandleValidate(h, body)
  \/ \E h \in IdleHandlers : HandleHealth(h)
  \/ \E h \in IdleHandlers : HandleCurrent(h)
  \/ \E t \in 0 .. MaxIdleTime : InactivityTimeout(t)
  \/ Signal
  \/ CleanupUnlink
  \/ CleanupExit

\* The daemon has started and idles, serves requests, and shuts down.
SpecIdle == InitPlay /\ [][NextIdle]_vars

\* The event loop runs a timer callback that is due, and a cleanup that has
\* begun goes on: unlink completes and the process exits.
SpecIdleFair ==
  /\ SpecIdle
  /\ WF_vars(\E t \in 0 .. MaxIdleTime : InactivityTimeout(t))
  /\ WF_vars(CleanupUnlink)
  /\ WF_vars(CleanupExit)

\* ------------------------------------------------- client stop and pause

\* The call of a CLI process that stops or pauses playback.
ClientRequest(op) == Request(op, "", << >>, << >>, << >>, Undefined)

\* A variant of client stop and pause that resolves the daemon as play does.
ClientCheckEnsure(p, op) ==
  /\ pc[p] = "idle"
  /\ req' = [req EXCEPT ![p] = ClientRequest(op)]
  /\ IF IsDaemonRunning
     THEN /\ pc' = [pc EXCEPT ![p] = "reread"]
          /\ UNCHANGED <<start, lock>>
     ELSE Enter(p, DAEMON_LOCK)
  /\ UNCHANGED <<file, now, pend, ret, daemonVars, storeVars, playVars>>

\* client stop and pause begin: isDaemonRunning; when it is false the call
\* throws "No music is playing" and nothing else happens.
ClientCheck(p, op) ==
  /\ pc[p] = "idle"
  /\ req' = [req EXCEPT ![p] = ClientRequest(op)]
  /\ IF IsDaemonRunning
     THEN /\ pc' = [pc EXCEPT ![p] = "reread"]
          /\ UNCHANGED ret
     ELSE /\ pc' = [pc EXCEPT ![p] = "done"]
          /\ ret' = [ret EXCEPT ![p] = "NoActiveSession"]
  /\ UNCHANGED <<file, now, lock, start, pend, daemonVars, storeVars, playVars>>

\* const pidInfo = (await readPidFile())!: the record is read again; when it
\* has gone meanwhile, building the request URL throws a TypeError.
ClientReread(p) ==
  /\ pc[p] = "reread"
  /\ IF pidFile # 0
     THEN /\ pc' = [pc EXCEPT ![p] = "post"]
          /\ info' = [info EXCEPT ![p] = pidFile]
          /\ UNCHANGED ret
     ELSE /\ pc' = [pc EXCEPT ![p] = "done"]
          /\ ret' = [ret EXCEPT ![p] = "TypeError"]
          /\ UNCHANGED info
  /\ UNCHANGED <<file, now, lock, req, start, pend, pidFile, daemons, child,
                 storeVars, playVars>>

\* post('/stop' or '/pause', {}, pidInfo): the request is sent to the
\* recorded port; the daemon answers it, or fetch fails when nothing listens.
ClientPost(p) ==
  /\ pc[p] = "post"
  /\ pc' = [pc EXCEPT ![p] = "done"]
  /\ ret' = [ret EXCEPT ![p] = IF HealthOk(info[p]) THEN "none" ELSE "FetchFailed"]
  /\ UNCHANGED <<file, now, lock, req, start, pend, daemonVars, storeVars, playVars>>

\* Commands that need the daemon and commands that stop or pause it run side
\* by side, while the daemon starts and is shut down by a signal.
NextClient ==
  \/ NextDaemon
  \/ \E p \in Procs, op \in {"stop", "pause"} : ClientCheck(p, op)
  \/ \E p \in Procs : ClientReread(p)
  \/ \E p \in Procs : ClientPost(p)
  \/ Signal
  \/ CleanupUnlink
  \/ CleanupExit

SpecClient == InitDaemon /\ [][NextClient]_vars

\* ------------------------------------------- sequence and update commands

\* The handler that serves the command's requests.
CmdHandler == "h1"

\* The song the commands work on: makeSong("s1", "a"), then "a" replaced by
\* "b": two versions.
SequenceFile ==
  SaveSongs(UpdateBody(MakeBody(EmptyData, "s1", <<"a">>, 0).data,
                       "s1", <<"a">>, <<"b">>, Undefined, 0).data)

\* The number of versions of the song, 0 when there is no such song.
VersionCount(f, name) ==
  IF OwnSong(LoadSongs(f), name) THEN Len(LoadSongs(f).songs[name].versions) ELSE 0

\* The command ends with the given exit status.
CmdExit(c, exit, report) == [c EXCEPT !.pc = "done", !.exit = exit, !.report = report]

\* sequence <name> --versions: the list must be non-empty and every version a
\* positive integer, or the command exits with status 1 before any step.
SequenceCommand(name, steps) ==
  /\ cmd.pc = "idle"
  /\ LET c == [NoCommand EXCEPT !.op = "sequence", !.name = name,
                                !.steps = steps, !.i = 1,
                                !.t0 = VersionCount(file, name)]
     IN cmd' = IF steps = << >> \/ \E k \in DOMAIN steps : steps[k] < 1
               THEN CmdExit(c, 1, "invalid")
               ELSE [c EXCEPT !.pc = "promote"]
  /\ UNCHANGED <<file, now, last, prev, hist, lockVars, daemonVars, playVars>>

\* A variant of the step's store call that promotes the version of the first
\* step every time.
SequencePromoteFirst ==
  LET out == PromoteBody(LoadSongs(file), cmd.name, cmd.steps[1], now)
  IN /\ cmd.pc = "promote"
     /\ file' = Apply(out)
     /\ cmd' = IF out.res.err = "none"
               THEN [cmd EXCEPT !.pc = "evaluate", !.code = out.res.code,
                                !.version = out.res.version]
               ELSE CmdExit(cmd, 1, out.res.err)
     /\ UNCHANGED <<now, last, prev, hist, lockVars, daemonVars, playVars>>

\* A step of the sequence: storage.promoteVersion(name, ver).
SequencePromote ==
  LET out == PromoteBody(LoadSongs(file), cmd.name, cmd.steps[cmd.i], now)
  IN /\ cmd.pc = "promote"
     /\ file' = Apply(out)
     /\ cmd' = IF out.res.err = "none"
               THEN [cmd EXCEPT !.pc = "evaluate", !.code = out.res.code,
                                !.version = out.res.version]
               ELSE CmdExit(cmd, 1, out.res.err)
     /\ UNCHANGED <<now, last, prev, hist, lockVars, daemonVars, playVars>>

\* client.evaluate(code, name, version): the daemon runs and is healthy, so
\* ensureDaemon returns its record, and the request reaches handleEvaluate.
CmdEvaluate ==
  /\ cmd.pc = "evaluate"
  /\ EvaluateBegin(CmdHandler,
                   [code |-> Code(cmd.code), name |-> Name(cmd.name),
                    version |-> Integer(cmd.version)])
  /\ cmd' = [cmd EXCEPT !.pc = "await"]
  /\ UNCHANGED <<file, now, last, prev, hist, lockVars, daemonVars>>

\* The response to the evaluate request arrives: post throws unless it is
\* 200; a sequence goes on to its next step after the delay, and a command
\* that is through exits with status 0.
CmdResponse ==
  /\ cmd.pc = "await"
  /\ hreq[CmdHandler].op = "none"
  /\ cmd' = IF status[CmdHandler].code # 200
            THEN CmdExit(cmd, 1, "EvaluationError")
            ELSE IF cmd.op = "sequence" /\ cmd.i < Len(cmd.steps)
            THEN [cmd EXCEPT !.pc = "promote", !.i = @ + 1]
            ELSE CmdExit(cmd, 0, "playing")
  /\ UNCHANGED <<file, now, last, prev, hist, lockVars, daemonVars, playVars>>

\* A variant of the update command that validates before it stores.
UpdateCommandValidateFirst(name, from, to, index) ==
  LET chk == ValidateUpdateArgs(from, index)
      out == IF chk = "ok"
             THEN UpdateBody(LoadSongs(file), name, from, to, index, now)
             ELSE Outcome(FALSE, EmptyData, Failure(chk, 0))
      c == [NoCommand EXCEPT !.op = "update", !.name = name,
                             !.t0 = VersionCount(file, name)]
  IN /\ cmd.pc = "idle"
     /\ cmd' = IF out.res.err = "none"
               THEN [c EXCEPT !.pc = "validate", !.code = out.res.code,
                              !.version = out.res.version]
               ELSE CmdExit(c, 1, out.res.err)
     /\ UNCHANGED <<file, now, last, prev, hist, lockVars, daemonVars, playVars>>

\* update <name> --from --to [--index]: storage.updateSong comes first.
UpdateCommand(name, from, to, index) ==
  LET chk == ValidateUpdateArgs(from, index)
      out == IF chk = "ok"
             THEN UpdateBody(LoadSongs(file), name, from, to, index, now)
             ELSE Outcome(FALSE, EmptyData, Failure(chk, 0))
      c == [NoCommand EXCEPT !.op = "update", !.name = name,
                             !.t0 = VersionCount(file, name)]
  IN /\ cmd.pc = "idle"
     /\ file' = Apply(out)
     /\ cmd' = IF out.res.err = "none"
               THEN [c EXCEPT !.pc = "validate", !.code = out.res.code,
                              !.version = out.res.version]
               ELSE CmdExit(c, 1, out.res.err)
     /\ UNCHANGED <<now, last, prev, hist, lockVars, daemonVars, playVars>>

\* client.validate(code): the request reaches handleValidate, which refuses
\* an empty code with 400 (post throws) and otherwise answers the engine's
\* verdict; on an invalid code the command reports that the song is saved
\* but not playing and exits with status 1.
CmdValidate(valid) ==
  /\ cmd.pc = "validate"
  /\ Serving
  /\ hreq[CmdHandler].op = "none"
  /\ IF ~IsCode(Code(cmd.code))
     THEN /\ Respond(CmdHandler, "validate", 400)
          /\ cmd' = CmdExit(cmd, 1, "MissingCode")
     ELSE /\ Respond(CmdHandler, "validate", 200)
          /\ cmd' = IF valid
                    THEN [cmd EXCEPT !.pc = "evaluate"]
                    ELSE CmdExit(cmd, 1, "SavedNotPlaying")
  /\ UNCHANGED <<file, now, last, prev, hist, state, engine, inactivityTimer,
                 timers, lockVars, daemonVars>>

\* The update commands tried: on the song and on a missing one, with a text
\* that occurs and one that does not, and a replacement that may be empty.
UpdateNames == {"s1", "s2"}
UpdateFroms == {<<"b">>, <<"c">>}
UpdateTos == {<< >>, <<"a">>}

\* The version lists tried: of up to MaxSteps steps, of versions that exist,
\* that the sequence creates, and that are out of range.
StepLists ==
  UNION {[1 .. n -> 0 .. MaxVersions + 1] : n \in 0 .. MaxSteps}

\* The daemon runs and the song has two versions; nothing plays, or another
\* song does.
InitCommand ==
  /\ file = SequenceFile
  /\ now = 0
  /\ StoreIdle
  /\ LockIdle
  /\ inactivityTimer = 0
  /\ timers = {0}
  /\ hreq = [h \in Handlers |-> NoHandler]
  /\ status = [h \in Handlers |-> NoStatus]
  /\ \/ state = Stopped /\ engine = NoEngine
     \/ /\ state = [state |-> "playing", name |-> Name("s2"),
                    version |-> Integer(1), code |-> Code(<<"b">>)]
        /\ engine = [run |-> "playing", code |-> Code(<<"b">>)]
  /\ child = [p \in Procs |-> 0]
  /\ info = [p \in Procs |-> 0]
  /\ pidFile = DaemonPid
  /\ daemons = [d \in DaemonIds |->
                  IF d = DaemonPid
                  THEN [state |-> "ready", at |-> 0, late |-> FALSE]
                  ELSE NoDaemon]

\* One command runs; time passes between its calls.
NextCommand ==
  \/ Tick
  \/ \E steps \in StepLists : SequenceCommand("s1", steps)
  \/ SequencePromote
  \/ CmdEvaluate
  \/ \E ok \in BOOLEAN : EvaluateFinish(CmdHandler, ok)
  \/ CmdResponse
  \/ \E name \in UpdateNames, from \in UpdateFroms, to \in UpdateTos :
       UpdateCommand(name, from, to, Undefined)
  \/ \E valid \in BOOLEAN : CmdValidate(valid)

SpecCommand == InitCommand /\ [][NextCommand]_vars

\* ------------------------------------------------- commands one at a time

\* A command has exited and the user types the next one.
CmdAgain ==
  /\ cmd.pc = "done"
  /\ cmd' = NoCommand
  /\ UNCHANGED <<file, now, last, prev, hist, lockVars, daemonVars, playVars>>

\* make <name> --code <code> --no-validate: storage.makeSong.
MakeCommand(name, code) ==
  LET out == MakeBody(LoadSongs(file), name, code, now)
      c == [NoCommand EXCEPT !.op = "make", !.name = name]
  IN /\ cmd.pc = "idle"
     /\ file' = Apply(out)
     /\ cmd' = CmdExit(c, IF out.res.err = "none" THEN 0 ELSE 1, out.res.err)
     /\ UNCHANGED <<now, last, prev, hist, lockVars, daemonVars, playVars>>

\* rename <old-name> <new-name>: storage.renameSong, and nothing else.
RenameCommand(oldName, newName) ==
  LET out == RenameBody(LoadSongs(file), oldName, newName)
      c == [NoCommand EXCEPT !.op = "rename", !.name = oldName]
  IN /\ cmd.pc = "idle"
     /\ file' = Apply(out)
     /\ cmd' = CmdExit(c, IF out.res.err = "none" THEN 0 ELSE 1, out.res.err)
     /\ UNCHANGED <<now, last, prev, hist, lockVars, daemonVars, playVars>>

\* play <name>: storage.getSongCode reads the latest version; a missing song
\* ends the command before the daemon is asked for.
PlayCommand(name) ==
  LET res == DetailSong(file, name, Undefined)
      c == [NoCommand EXCEPT !.op = "play", !.name = name]
  IN /\ cmd.pc = "idle"
     /\ cmd' = IF res.err = "none"
               THEN [c EXCEPT !.pc = "ensure", !.code = res.code,
                              !.version = res.version]
               ELSE CmdExit(c, 1, res.err)
     /\ UNCHANGED <<file, now, last, prev, hist, lockVars, daemonVars, playVars>>

\* A daemon process has been spawned and is ready: its state is
\* {state: 'stopped'}, its PID file written, its timer set.
DaemonStarted ==
  /\ daemons' = [daemons EXCEPT
                   ![DaemonPid] = [state |-> "ready", at |-> 0, late |-> FALSE]]
  /\ pidFile' = DaemonPid
  /\ state' = Stopped
  /\ engine' = NoEngine
  /\ inactivityTimer' = now
  /\ timers' = {now}
  /\ hreq' = [h \in Handlers |-> NoHandler]
  /\ status' = [h \in Handlers |-> NoStatus]

\* ensureDaemon in client.play and client.getCurrent: a healthy recorded
\* daemon is used; otherwise one is started, and the command fails when the
\* new daemon does not become healthy in time.
CmdEnsure(started) ==
  /\ cmd.pc = "ensure"
  /\ IF HealthyDaemon # 0
     THEN /\ cmd' = [cmd EXCEPT !.pc = IF cmd.op = "delete" THEN "current" ELSE "post"]
          /\ UNCHANGED <<pidFile, daemons, playVars>>
     ELSE IF started /\ ~IsProcessAlive(DaemonPid)
     THEN /\ cmd' = [cmd EXCEPT !.pc = IF cmd.op = "delete" THEN "current" ELSE "post"]
          /\ DaemonStarted
     ELSE /\ cmd' = CmdExit(cmd, 1, "DaemonStartFailed")
          /\ UNCHANGED <<pidFile, daemons, playVars>>
  /\ UNCHANGED <<file, now, last, prev, hist, child, info, lockVars>>

\* client.play's post: the request reaches handlePlay, or the daemon is gone
\* and fetch throws.
CmdPlay ==
  /\ cmd.pc = "post"
  /\ IF Serving
     THEN /\ PlayBegin(CmdHandler,
                       [code |-> Code(cmd.code), name |-> Name(cmd.name),
                        version |-> Integer(cmd.version)])
          /\ cmd' = [cmd EXCEPT !.pc = "await"]
     ELSE /\ cmd' = CmdExit(cmd, 1, "FetchFailed")
          /\ UNCHANGED playVars
  /\ UNCHANGED <<file, now, last, prev, hist, lockVars, daemonVars>>

\* client.stop() as the stop command and the delete command call it:
\* isDaemonRunning, then the /stop request, which handleStop answers.
ClientStop(c, then) ==
  IF IsDaemonRunning /\ hreq[CmdHandler].op = "none"
  THEN /\ engine' = EngineStop(engine)
       /\ state' = StopState
       /\ ResetInactivityTimer
       /\ Respond(CmdHandler, "stop", 200)
       /\ cmd' = then
  ELSE /\ cmd' = CmdExit(c, 1, "NotPlaying")
       /\ UNCHANGED playVars

\* stop: client.stop().
StopCommand ==
  LET c == [NoCommand EXCEPT !.op = "stop"]
  IN /\ cmd.pc = "idle"
     /\ ClientStop(c, CmdExit(c, 0, "stopped"))
     /\ UNCHANGED <<file, now, last, prev, hist, lockVars, daemonVars>>

\* A variant of the delete command that asks for the current state without
\* asking first whether a daemon runs.
DeleteCommandCurrentFirst(name) ==
  /\ cmd.pc = "idle"
  /\ cmd' = [NoCommand EXCEPT !.op = "delete", !.name = name, !.pc = "ensure"]
  /\ UNCHANGED <<file, now, last, prev, hist, lockVars, daemonVars, playVars>>

\* delete <name>: client.isDaemonRunning(); without a daemon the command
\* goes on to storage.deleteSong.
DeleteCommand(name) ==
  /\ cmd.pc = "idle"
  /\ cmd' = [NoCommand EXCEPT !.op = "delete", !.name = name,
                              !.pc = IF IsDaemonRunning THEN "ensure"
                                     ELSE "deleteSong"]
  /\ UNCHANGED <<file, now, last, prev, hist, lockVars, daemonVars, playVars>>

\* delete: client.getCurrent()'s request, which handleCurrent answers with
\* the state; cur.name === name && cur.state !== 'stopped' decides on the stop.
CmdCurrent ==
  /\ cmd.pc = "current"
  /\ IF Serving /\ hreq[CmdHandler].op = "none"
     THEN /\ Respond(CmdHandler, "current", 200)
          /\ cmd' = [cmd EXCEPT !.pc =
                       IF state.name = Name(cmd.name) /\ state.state # "stopped"
                       THEN "stop" ELSE "deleteSong"]
     ELSE /\ cmd' = CmdExit(cmd, 1, "FetchFailed")
          /\ UNCHANGED <<hreq, status>>
  /\ UNCHANGED <<state, engine, inactivityTimer, timers>>
  /\ UNCHANGED <<file, now, last, prev, hist, lockVars, daemonVars>>

\* delete: await client.stop() before the song is removed.
CmdStop ==
  /\ cmd.pc = "stop"
  /\ ClientStop(cmd, [cmd EXCEPT !.pc = "deleteSong"])
  /\ UNCHANGED <<file, now, last, prev, hist, lockVars, daemonVars>>

\* delete: storage.deleteSong(name).
CmdDeleteSong ==
  LET out == DeleteBody(LoadSongs(file), cmd.name)
  IN /\ cmd.pc = "deleteSong"
     /\ file' = Apply(out)
     /\ cmd' = CmdExit(cmd, IF out.res.err = "none" THEN 0 ELSE 1, out.res.err)
     /\ UNCHANGED <<now, last, prev, hist, lockVars, daemonVars, playVars>>

\* No song is stored; a daemon runs and plays nothing, or none runs.
InitSongs ==
  /\ file = NoFile
  /\ now = 0
  /\ StoreIdle
  /\ LockIdle
  /\ PlayIdle
  /\ child = [p \in Procs |-> 0]
  /\ info = [p \in Procs |-> 0]
  /\ \/ /\ pidFile = DaemonPid
        /\ daemons = [d \in DaemonIds |->
                        IF d = DaemonPid
                        THEN [state |-> "ready", at |-> 0, late |-> FALSE]
                        ELSE NoDaemon]
     \/ /\ pidFile = 0
        /\ daemons = [d \in DaemonIds |-> NoDaemon]

\* The user runs one command after another; the daemon may be sent a signal.
NextSongs ==
  \/ CmdAgain
  \/ \E name \in Names : MakeCommand(name, <<"a">>)
  \/ \E oldName, newName \in Names : RenameCommand(oldName, newName)
  \/ \E name \in Names : PlayCommand(name)
  \/ \E started \in BOOLEAN : CmdEnsure(started)
  \/ CmdPlay
  \/ \E ok \in BOOLEAN : PlayFinish(CmdHandler, ok)
  \/ CmdResponse
  \/ StopCommand
  \/ \E name \in Names : DeleteCommand(name)
  \/ CmdCurrent
  \/ CmdStop
  \/ CmdDeleteSong
  \/ Signal
  \/ CleanupUnlink
  \/ CleanupExit

SpecSongs == InitSongs /\ [][NextSongs]_vars

\* ------------------------------------------- update commands side by side

\* The CLI processes that run an update command at the same time, and the
\* daemon handler that serves each one's requests.
RaceProcs == {1, 2}
HandlerOf(p) == IF p = 1 THEN "h1" ELSE "h2"

\* update <name> --from --to: storage.updateSong, from its check of the
\* arguments to its return; the command keeps the code and version returned.
RaceUpdate(p, call) ==
  LET chk == ValidateUpdateArgs(call.from, call.arg)
      out == IF chk = "ok"
             THEN UpdateBody(LoadSongs(file), call.name, call.from, call.to,
                             call.arg, now)
             ELSE Outcome(FALSE, EmptyData, Failure(chk, 0))
  IN /\ pc[p] = "idle"
     /\ req' = [req EXCEPT ![p] = call]
     /\ file' = Apply(out)
     /\ IF out.res.err = "none"
        THEN /\ pc' = [pc EXCEPT ![p] = "validate"]
             /\ pend' = [pend EXCEPT ![p] = Outcome(FALSE, EmptyData, out.res)]
             /\ UNCHANGED ret
        ELSE /\ pc' = [pc EXCEPT ![p] = "done"]
             /\ ret' = [ret EXCEPT ![p] = out.res.err]
             /\ UNCHANGED pend
     /\ UNCHANGED <<now, lock, start, storeVars, daemonVars, playVars>>

\* client.validate(code) and the command's reading of the verdict.
RaceValidate(p, valid) ==
  /\ pc[p] = "validate"
  /\ Serving
  /\ hreq[HandlerOf(p)].op = "none"
  /\ IF ~IsCode(Code(pend[p].res.code))
     THEN /\ Respond(HandlerOf(p), "validate", 400)
          /\ pc' = [pc EXCEPT ![p] = "done"]
          /\ ret' = [ret EXCEPT ![p] = "MissingCode"]
     ELSE /\ Respond(HandlerOf(p), "validate", 200)
          /\ pc' = [pc EXCEPT ![p] = IF valid THEN "evaluate" ELSE "done"]
          /\ ret' = [ret EXCEPT ![p] = IF valid THEN @ ELSE "SavedNotPlaying"]
  /\ UNCHANGED <<file, now, lock, req, start, pend, state, engine,
                 inactivityTimer, timers, storeVars, daemonVars>>

\* client.evaluate(code, name, version): the request reaches handleEvaluate.
RaceEvaluate(p) ==
  /\ pc[p] = "evaluate"
  /\ EvaluateBegin(HandlerOf(p),
                   [code |-> Code(pend[p].res.code), name |-> Name(req[p].name),
                    version |-> Integer(pend[p].res.version)])
  /\ pc' = [pc EXCEPT ![p] = "await"]
  /\ UNCHANGED <<file, now, lock, req, start, pend, ret, storeVars, daemonVars>>

\* The answer to the evaluate request arrives: post throws unless it is 200.
RaceResponse(p) ==
  /\ pc[p] = "await"
  /\ hreq[HandlerOf(p)].op = "none"
  /\ pc' = [pc EXCEPT ![p] = "done"]
  /\ ret' = [ret EXCEPT ![p] = IF status[HandlerOf(p)].code = 200
                                THEN @ ELSE "EvaluationError"]
  /\ pend' = [pend EXCEPT ![p] = NoOutcome]
  /\ UNCHANGED <<file, now, lock, req, start, storeVars, daemonVars, playVars>>

\* The update commands tried: a text that occurs in every version and one
\* that does not, with replacements that keep the first occurring.
RaceCalls ==
  {Request("update", "s1", << >>, from, to, Undefined) :
     from \in {<<"a">>, <<"c">>}, to \in {<<"a", "b">>, <<"b", "a">>}}

\* The daemon runs and plays nothing or another song; the song has one version.
InitRace ==
  /\ file = FreshFile
  /\ now = 0
  /\ StoreIdle
  /\ LockIdle
  /\ inactivityTimer = 0
  /\ timers = {0}
  /\ hreq = [h \in Handlers |-> NoHandler]
  /\ status = [h \in Handlers |-> NoStatus]
  /\ \/ state = Stopped /\ engine = NoEngine
     \/ /\ state = [state |-> "playing", name |-> Name("s2"),
                    version |-> Integer(1), code |-> Code(<<"b">>)]
        /\ engine = [run |-> "playing", code |-> Code(<<"b">>)]
  /\ child = [p \in Procs |-> 0]
  /\ info = [p \in Procs |-> 0]
  /\ pidFile = DaemonPid
  /\ daemons = [d \in DaemonIds |->
                  IF d = DaemonPid
                  THEN [state |-> "ready", at |-> 0, late |-> FALSE]
                  ELSE NoDaemon]

\* Two update commands run side by side against one daemon.
NextRace ==
  \/ \E p \in RaceProcs, call \in RaceCalls : RaceUpdate(p, call)
  \/ \E p \in RaceProcs, valid \in BOOLEAN : RaceValidate(p, valid)
  \/ \E p \in RaceProcs : RaceEvaluate(p)
  \/ \E p \in RaceProcs, ok \in BOOLEAN : EvaluateFinish(HandlerOf(p), ok)
  \/ \E p \in RaceProcs : RaceResponse(p)

SpecRace == InitRace /\ [][NextRace]_vars

\* ------------------------------------------------- properties: the store

\* `from` is read character by character at offset p of `code`.
HasAt(code, from, p) ==
  \A i \in 1 .. Len(from) : p + i <= Len(code) /\ code[p + i] = from[i]

\* Every offset at which `from` occurs in `code`, overlapping or not.
Occurrences(code, from) == {p \in 0 .. Len(code) : HasAt(code, from, p)}

\* The i-th (0-based) smallest offset of a set of offsets.
IthOf(offsets, i) ==
  CHOOSE p \in offsets : Cardinality({q \in offsets : q < p}) = i

\* `list` holds exactly the offsets of `offsets`, in ascending order.
IsAscendingListOf(list, offsets) ==
  /\ Len(list) = Cardinality(offsets)
  /\ \A i \in 1 .. Len(list) : list[i] \in offsets
  /\ \A i, j \in 1 .. Len(list) : i < j => list[i] < list[j]

\* `new` is `old` with the Len(from) characters at offset p replaced by `to`,
\* and every other character kept.
IsReplacedAt(new, old, p, from, to) ==
  /\ Len(new) = Len(old) - Len(from) + Len(to)
  /\ \A j \in 1 .. p : new[j] = old[j]
  /\ \A j \in 1 .. Len(to) : new[p + j] = to[j]
  /\ \A j \in 1 .. Len(old) - p - Len(from) :
       new[p + Len(to) + j] = old[p + Len(from) + j]

\* `old` is a prefix of `new`.
IsPrefix(old, new) ==
  /\ Len(old) <= Len(new)
  /\ \A i \in 1 .. Len(old) : new[i] = old[i]

\* The versions of a song in a file.
VersionsOf(f, name) == f.data.songs[name].versions
ExistsIn(f, name) == f.exists /\ name \in DOMAIN f.data.songs

\* The last call was updateSong on a song that existed, the latest code of
\* which was `LatestBefore`.
UpdatedExisting == last.op = "update" /\ ExistsIn(prev, last.name)
LatestBefore == VersionsOf(prev, last.name)[Len(VersionsOf(prev, last.name))].code

\* C4: versions are append-only. On every step, a song present before and
\* after keeps each of its versions (code and createdAt) at its position.
C4_AppendOnly ==
  [][\A name \in Names :
       (ExistsIn(file, name) /\ ExistsIn(file', name)) =>
         IsPrefix(VersionsOf(file, name), VersionsOf(file', name))]_vars

\* An update has succeeded on a song that held two versions.
C4_Witness ==
  /\ UpdatedExisting
  /\ last.res.err = "none"
  /\ Len(VersionsOf(prev, last.name)) = 2
  /\ Len(VersionsOf(file, last.name)) = 3

\* C5: after makeSong(name, c0) and N successful updates of name and nothing
\* else on it, detailSong(name) returns the N-th update's code as version
\* N+1 of N+1, and detailSong(name, 1) returns c0.
C5_LatestAfterUpdates ==
  \A name \in Names :
    hist[name].valid =>
      LET latest == DetailSong(file, name, Undefined)
          first == DetailSong(file, name, Integer(1))
      IN /\ latest.err = "none"
         /\ latest.code = hist[name].code
         /\ latest.version = hist[name].n + 1
         /\ latest.total = hist[name].n + 1
         /\ first.err = "none"
         /\ first.code = hist[name].c0
         /\ first.version = 1

\* A song created and then updated twice, the updates changing its code.
C5_Witness ==
  \E name \in Names :
    /\ hist[name].valid
    /\ hist[name].n = 2
    /\ hist[name].code # hist[name].c0

\* C6: without an index, updateSong succeeds when `from` occurs once and
\* fails with AmbiguousMatch, reporting the count and saving nothing, when it
\* occurs twice or more; with a valid index i it replaces the i-th occurrence
\* in ascending offset.
C6_IndexResolution ==
  (UpdatedExisting /\ Len(last.from) > 0) =>
    LET occ == Occurrences(LatestBefore, last.from)
        k == Cardinality(occ)
    IN /\ (last.arg = Undefined /\ k = 1) =>
            /\ last.res.err = "none"
            /\ IsReplacedAt(last.res.code, LatestBefore, IthOf(occ, 0), last.from, last.to)
       /\ (last.arg = Undefined /\ k >= 2) =>
            /\ last.res.err = "AmbiguousMatch"
            /\ last.res.count = k
            /\ file = prev
       /\ (last.arg.kind = "integer" /\ last.arg.val >= 0 /\ last.arg.val < k) =>
            /\ last.res.err = "none"
            /\ IsReplacedAt(last.res.code, LatestBefore, IthOf(occ, last.arg.val),
                            last.from, last.to)

\* An update without index was refused as ambiguous.
C6_Witness ==
  /\ UpdatedExisting
  /\ last.arg = Undefined
  /\ last.res.err = "AmbiguousMatch"
  /\ last.res.count = 3

\* C7: the match list is the ascending list of every offset at which `from`
\* occurs, overlapping occurrences included, and that many matches are
\* reported when the call is refused as ambiguous.
C7_OverlappingMatches ==
  (UpdatedExisting /\ Len(last.from) > 0) =>
    LET occ == Occurrences(LatestBefore, last.from)
    IN /\ IsAscendingListOf(FindMatches(LatestBefore, last.from, 0, << >>), occ)
       /\ (last.arg = Undefined /\ Cardinality(occ) >= 2) =>
            last.res.count = Cardinality(occ)
       /\ (last.res.err = "NoMatch") <=> (ValidateUpdateArgs(last.from, last.arg) = "ok" /\ occ = {})

\* "aa" was searched in "aaa": two overlapping matches, at offsets 0 and 1.
C7_Witness ==
  /\ UpdatedExisting
  /\ LatestBefore = <<"a", "a", "a">>
  /\ last.from = <<"a", "a">>
  /\ last.arg = Undefined
  /\ last.res.err = "AmbiguousMatch"
  /\ last.res.count = 2

\* C8: a successful updateSong replaces the one occurrence at the resolved
\* offset and keeps every other character, appends exactly one version
\* holding that code, and returns the new total as the version number.
C8_ReplaceOne ==
  (UpdatedExisting /\ last.res.err = "none") =>
    LET occ == Occurrences(LatestBefore, last.from)
        i == IF last.arg = Undefined THEN 0 ELSE last.arg.val
        before == VersionsOf(prev, last.name)
        after == VersionsOf(file, last.name)
    IN /\ i < Cardinality(occ)
       /\ IsReplacedAt(last.res.code, LatestBefore, IthOf(occ, i), last.from, last.to)
       /\ Len(after) = Len(before) + 1
       /\ IsPrefix(before, after)
       /\ after[Len(after)].code = last.res.code
       /\ last.res.version = Len(after)
       /\ \A other \in Names \ {last.name} :
            /\ ExistsIn(file, other) <=> ExistsIn(prev, other)
            /\ ExistsIn(file, other) => VersionsOf(file, other) = VersionsOf(prev, other)

\* The second of three occurrences was replaced by a text of another length.
C8_Witness ==
  /\ UpdatedExisting
  /\ last.res.err = "none"
  /\ Cardinality(Occurrences(LatestBefore, last.from)) = 3
  /\ last.arg = Integer(1)
  /\ Len(last.to) # Len(last.from)

\* C10: with an index supplied and m >= 1 matches, updateSong succeeds
\* exactly when the index is an integer in 0 .. m-1; a negative or
\* non-integer index is an invalid argument, an index >= m is out of range,
\* and neither failure saves anything.
C10_IndexValidation ==
  (UpdatedExisting /\ Len(last.from) > 0 /\ last.arg # Undefined) =>
    LET m == Cardinality(Occurrences(LatestBefore, last.from))
        valid == last.arg.kind = "integer" /\ last.arg.val >= 0
    IN m >= 1 =>
         /\ (last.res.err = "none") <=> (valid /\ last.arg.val < m)
         /\ ~valid => last.res.err = "InvalidArgument"
         /\ (valid /\ last.arg.val >= m) => last.res.err = "IndexOutOfRange"
         /\ last.res.err # "none" => file = prev

\* Index 1 was given for a text that occurs once.
C10_Witness ==
  /\ UpdatedExisting
  /\ Cardinality(Occurrences(LatestBefore, last.from)) = 1
  /\ last.arg = Integer(1)
  /\ last.res.err = "IndexOutOfRange"

\* The last call was detailSong on a song that existed.
DetailedExisting == last.op = "detail" /\ ExistsIn(prev, last.name)

\* C12: on a song with T versions, detailSong(name, v) fails with
\* VersionOutOfRange for every integer v < 1 (0 included) and every v > T; for
\* 1 <= v <= T it returns code and createdAt of version v, with version = v
\* and totalVersions = T; without v it returns version T.
C12_DetailRange ==
  DetailedExisting =>
    LET versions == VersionsOf(prev, last.name)
        T == Len(versions)
        v == last.arg
    IN /\ (v.kind = "integer" /\ (v.val < 1 \/ v.val > T)) =>
            last.res.err = "VersionOutOfRange"
       /\ (v.kind = "integer" /\ v.val >= 1 /\ v.val <= T) =>
            /\ last.res.err = "none"
            /\ last.res.code = versions[v.val].code
            /\ last.res.createdAt = versions[v.val].createdAt
            /\ last.res.version = v.val
            /\ last.res.total = T
       /\ v = Undefined =>
            /\ last.res.err = "none"
            /\ last.res.code = versions[T].code
            /\ last.res.version = T
            /\ last.res.total = T

\* The last call was promoteVersion on a song that existed.
PromotedExisting == last.op = "promote" /\ ExistsIn(prev, last.name)

\* C13: promoteVersion(name, v) on a song with T versions, 1 <= v <= T,
\* appends one version T+1 holding version v's code and returns fromVersion
\* = v and newVersion = T+1; detailSong(name, u) returns what it returned
\* before for every u <= T, and detailSong(name) returns version v's code as
\* version T+1.
C13_PromoteAppends ==
  PromotedExisting =>
    LET before == VersionsOf(prev, last.name)
        T == Len(before)
        v == last.arg.val
    IN (v >= 1 /\ v <= T) =>
         /\ last.res.err = "none"
         /\ ExistsIn(file, last.name)
         /\ Len(VersionsOf(file, last.name)) = T + 1
         /\ VersionsOf(file, last.name)[T + 1].code = before[v].code
         /\ last.res.count = v
         /\ last.res.version = T + 1
         /\ last.res.code = before[v].code
         /\ \A u \in 1 .. T :
              LET old == DetailSong(prev, last.name, Integer(u))
                  new == DetailSong(file, last.name, Integer(u))
              IN /\ new.err = "none"
                 /\ new.code = old.code
                 /\ new.createdAt = old.createdAt
                 /\ new.version = u
         /\ LET latest == DetailSong(file, last.name, Undefined)
            IN /\ latest.err = "none"
               /\ latest.code = before[v].code
               /\ latest.version = T + 1

\* The first of two versions, which differ in code, was promoted at a later
\* time than it was made.
C13_Witness ==
  /\ PromotedExisting
  /\ last.res.err = "none"
  /\ last.arg = Integer(1)
  /\ Len(VersionsOf(prev, last.name)) = 2
  /\ VersionsOf(prev, last.name)[1].code # VersionsOf(prev, last.name)[2].code
  /\ VersionsOf(file, last.name)[3].createdAt # VersionsOf(file, last.name)[1].createdAt

\* Every other song is in the file exactly if it was, with the same versions.
OthersUnchanged(name) ==
  \A other \in AnyNames \ {name} :
    /\ ExistsIn(file, other) <=> ExistsIn(prev, other)
    /\ ExistsIn(file, other) => VersionsOf(file, other) = VersionsOf(prev, other)

\* C14: a successful deleteSong(name) takes name out of listSongs() and
\* leaves every other song as it was; deleteSong succeeds on a name that is
\* a key and fails with NotFound, changing nothing, on one that is not; and
\* as long as name is not a key, detailSong(name, any version) fails with
\* NotFound.
C14_DeleteRemoves ==
  /\ (last.op = "delete" /\ last.res.err = "none") =>
       /\ last.name \notin ListSongs(file)
       /\ \A version \in Versions :
            DetailSong(file, last.name, version).err = "NotFound"
       /\ OthersUnchanged(last.name)
  /\ (last.op = "delete" /\ ExistsIn(prev, last.name)) => last.res.err = "none"
  /\ (last.op = "delete" /\ ~ExistsIn(prev, last.name)) =>
       /\ last.res.err = "NotFound"
       /\ file = prev
  /\ (last.op = "detail" /\ ~ExistsIn(prev, last.name)) =>
       last.res.err = "NotFound"

\* C15: renameSong(old, new) with old a key and new not moves the version
\* list as it is: detailSong(new, v) afterwards equals detailSong(old, v)
\* before, for every v and for v omitted, and detailSong(old) fails with
\* NotFound. It fails with NotFound when old is no key and with AlreadyExists
\* when new is taken, and then leaves the file as it was.
C15_RenameMoves ==
  last.op = "rename" =>
    LET old == last.name
        new == last.arg.val
    IN /\ (ExistsIn(prev, old) /\ ~ExistsIn(prev, new)) =>
            /\ last.res.err = "none"
            /\ \A version \in Versions :
                 DetailSong(file, new, version) = DetailSong(prev, old, version)
            /\ DetailSong(file, old, Undefined).err = "NotFound"
            /\ \A other \in Names \ {old, new} :
                 /\ ExistsIn(file, other) <=> ExistsIn(prev, other)
                 /\ ExistsIn(file, other) =>
                      VersionsOf(file, other) = VersionsOf(prev, other)
       /\ ~ExistsIn(prev, old) =>
            /\ last.res.err = "NotFound"
            /\ file = prev
       /\ (ExistsIn(prev, old) /\ ExistsIn(prev, new)) =>
            /\ last.res.err = "AlreadyExists"
            /\ file = prev

\* A song of two versions that differ in code was renamed.
C15_Witness ==
  /\ last.op = "rename"
  /\ last.res.err = "none"
  /\ Len(VersionsOf(file, last.arg.val)) = 2
  /\ VersionsOf(file, last.arg.val)[1].code # VersionsOf(file, last.arg.val)[2].code
  /\ ~ExistsIn(file, last.name)

\* C16: makeSong(name, code) fails with AlreadyExists exactly when name is a
\* key of the collection, and then leaves the file as it was; otherwise it
\* adds name with one version holding the code and leaves every other song
\* as it was. Every song in the collection has at least one version.
C16_MakeOnce ==
  /\ last.op = "make" =>
       /\ ExistsIn(prev, last.name) =>
            /\ last.res.err = "AlreadyExists"
            /\ file = prev
       /\ ~ExistsIn(prev, last.name) =>
            /\ last.res.err = "none"
            /\ ExistsIn(file, last.name)
            /\ Len(VersionsOf(file, last.name)) = 1
            /\ VersionsOf(file, last.name)[1].code = last.code
            /\ OthersUnchanged(last.name)
  /\ \A name \in ListSongs(file) : Len(VersionsOf(file, name)) >= 1

\* -------------------------------------------------- properties: the lock

\* The processes between their mkdir and the end of their rm.
InCritical == {p \in Procs : pc[p] \in {"fn", "save", "release"}}

\* The processes whose updateSong has returned a value.
UpdatedOk ==
  {p \in Procs : req[p].op = "update" /\ pc[p] = "done" /\ ret[p] = "none"}

\* C1: two concurrent updateSong calls on a fresh one-version song that both
\* succeed, and no other call, leave the song with exactly 3 versions.
C1_NoLostUpdate ==
  (Cardinality(UpdatedOk) = 2 /\ \A p \in Procs \ UpdatedOk : pc[p] = "idle") =>
    /\ ExistsIn(file, "s1")
    /\ Len(VersionsOf(file, "s1")) = 3

\* C2: at most one process is between taking the lock and releasing it.
C2_MutualExclusion == Cardinality(InCritical) <= 1

\* A process running updateSong with an empty --from.
EmptyFrom(call) == call.op = "update" /\ Len(call.from) = 0

\* C9: updateSong with an empty --from ends at once with InvalidArgument: it
\* never waits for or takes the lock, and neither reads nor writes the file.
C9_EmptyFromRejected ==
  /\ [](\A p \in Procs :
          EmptyFrom(req[p]) => pc[p] = "done" /\ ret[p] = "InvalidArgument")
  /\ [][\A p \in Procs :
          (pc[p] = "idle" /\ EmptyFrom(req'[p])) =>
            /\ pc'[p] = "done"
            /\ lock' = lock
            /\ file' = file
            /\ pend' = pend]_vars

\* An empty --from was refused while another process held the lock, and
\* before any song existed.
C9_Witness ==
  \E p \in Procs :
    /\ EmptyFrom(req[p])
    /\ pc[p] = "done"
    /\ lock[SONGS_LOCK].exists
    /\ lock[SONGS_LOCK].by # p
    /\ ~file.exists

\* ---------------------------------------------- properties: the daemon

\* The daemon processes that are alive.
Alive ==
  {d \in DaemonIds : daemons[d].state \in {"starting", "ready", "cleanup", "closing"}}

\* Every daemon alive has become healthy, or can still do so, within the
\* health-poll budget of its spawn.
WithinBudget ==
  \A d \in Alive :
    IF daemons[d].state = "ready" THEN ~daemons[d].late
    ELSE ~BudgetSpent(daemons[d].at, now)

\* C3: as long as spawned daemons stay within the health-poll budget, at no
\* time are two daemon processes alive.
C3_SingleDaemon == WithinBudget => Cardinality(Alive) <= 1

\* ------------------------------------------ properties: failing updates

\* The processes whose updateSong has thrown.
FailedUpdate == {p \in Procs : req[p].op = "update" /\ ret[p] # "none"}

\* The errors updateSong throws.
UpdateErrors ==
  {"NotFound", "NoMatch", "AmbiguousMatch", "IndexOutOfRange", "InvalidArgument"}

\* C11: an updateSong that fails, in any of its five ways, never saves: no
\* step of it changes the songs file. When it has ended no marker of it is
\* left, and when no call is running the lock is free for the next one.
C11_FailedUpdateClean ==
  /\ [](\A p \in FailedUpdate :
          /\ ret[p] \in UpdateErrors
          /\ pc[p] \in {"release", "done"}
          /\ pend[p] = NoOutcome
          /\ pc[p] = "done" =>
               ~(lock[SONGS_LOCK].exists /\ lock[SONGS_LOCK].by = p))
  /\ []((\A p \in Procs : pc[p] \in {"idle", "done"}) => ~lock[SONGS_LOCK].exists)
  /\ [][\A p \in Procs :
          (pc'[p] # pc[p] /\ req'[p].op = "update" /\ ret'[p] # "none") =>
            file' = file]_vars

\* An update refused as ambiguous and one refused for its index have ended,
\* the second one taking the lock after the first without any time passing.
C11_Witness ==
  \E p, q \in Procs :
    /\ pc[p] = "done" /\ ret[p] = "AmbiguousMatch"
    /\ pc[q] = "done" /\ ret[q] = "IndexOutOfRange"
    /\ now = 0
    /\ file = TwiceFile
    /\ ~lock[SONGS_LOCK].exists

\* ---------------------------------------- properties: PlaybackState

\* Handler h answers a request of kind op with status code in this step.
Answers(h, op, code) ==
  /\ status'[h] # status[h] \/ hreq'[h] # hreq[h]
  /\ hreq'[h].op = "none"
  /\ status'[h] = [op |-> op, code |-> code]

\* No handler is in the middle of a request.
NoneHandling == \A h \in Handlers : hreq[h].op = "none"

\* C17: no step of a /play request whose evaluation fails changes
\* PlaybackState: not the start of the evaluation and not the failure, which
\* is answered with an error; the state, name, version and code stay what
\* they were, whether the state was stopped, paused or playing.
C17_FailedPlayKeepsState ==
  [][\A h \in Handlers :
       /\ (hreq[h].op = "none" /\ hreq'[h].op = "play") => state' = state
       /\ (hreq[h].op = "play" /\ Answers(h, "play", 500)) => state' = state
       /\ (hreq[h].op = "play" /\ hreq'[h].op = "none") =>
            \/ Answers(h, "play", 500)
            \/ Answers(h, "play", 200)]_vars

\* A /play request failed while another song was paused: the snapshot of the
\* paused song is still there.
C17_Witness ==
  /\ NoneHandling
  /\ \E h \in Handlers : status[h] = [op |-> "play", code |-> 500]
  /\ state = [state |-> "paused", name |-> Name("s1"), version |-> Integer(1),
              code |-> Code(<<"a">>)]

\* C18: a /play request that succeeds sets PlaybackState to playing with the
\* request's code, its name and its version (absent when the request gives
\* none or a falsy one) whatever the state was, and resets the inactivity
\* timer; a /play request without a non-empty code text is answered 400 and
\* changes neither PlaybackState nor the engine nor the timer, and only a
\* request with code gets as far as the engine.
C18_PlayCommits ==
  /\ [](\A h \in Handlers : hreq[h].op = "play" => IsCode(hreq[h].body.code))
  /\ [][\A h \in Handlers :
          /\ (hreq[h].op = "play" /\ Answers(h, "play", 200)) =>
               LET body == hreq[h].body
               IN /\ state'.state = "playing"
                  /\ state'.code = body.code
                  /\ state'.name =
                       IF body.name \in {NoName, Name("")} THEN NoName ELSE body.name
                  /\ state'.version =
                       IF body.version \in {Undefined, Integer(0)}
                       THEN Undefined
                       ELSE body.version
                  /\ inactivityTimer' = now
          /\ Answers(h, "play", 400) =>
               /\ hreq[h].op = "none"
               /\ state' = state
               /\ engine' = engine
               /\ inactivityTimer' = inactivityTimer]_vars

\* C18 as stated: a /play request that succeeds records exactly the name,
\* the version and the code the request carries.
C18_PlayRecordsExactly ==
  [][\A h \in Handlers :
       (hreq[h].op = "play" /\ Answers(h, "play", 200)) =>
         /\ state'.state = "playing"
         /\ state'.name = hreq[h].body.name
         /\ state'.version = hreq[h].body.version
         /\ state'.code = hreq[h].body.code]_vars

\* A /play request without name succeeded at a later time than the daemon
\* started: the state holds its code and no name.
C18_Witness ==
  /\ \E h \in Handlers : status[h] = [op |-> "play", code |-> 200]
  /\ NoneHandling
  /\ state = [state |-> "playing", name |-> NoName, version |-> Integer(1),
              code |-> Code(<<"b">>)]
  /\ engine = [run |-> "playing", code |-> Code(<<"b">>)]
  /\ inactivityTimer = 1

\* C19: a /stop request succeeds from every PlaybackState and leaves it
\* stopped with name, version and code cleared; a second stop leaves the
\* same state as the first.
C19_StopClears ==
  /\ [](\A h \in Handlers : status[h].op = "stop" => status[h].code = 200)
  /\ [][\A h \in Handlers :
          Answers(h, "stop", 200) =>
            /\ state'.state = "stopped"
            /\ state'.name = NoName
            /\ state'.version = Undefined
            /\ state'.code = NoCode]_vars

\* Two /stop requests were answered, after a song had played.
C19_Witness ==
  /\ \A h \in Handlers : status[h] = [op |-> "stop", code |-> 200]
  /\ engine.code # NoCode
  /\ state = Stopped

\* C20: a /pause request succeeds from every PlaybackState; it turns playing
\* into paused, keeping name, version and code, and leaves a stopped or
\* paused state as it is. No step enters paused from another state than
\* playing.
C20_PauseOnlyPlaying ==
  /\ [](\A h \in Handlers : status[h].op = "pause" => status[h].code = 200)
  /\ [][/\ \A h \in Handlers :
             Answers(h, "pause", 200) =>
               /\ state.state = "playing" => state'.state = "paused"
               /\ state.state # "playing" => state'.state = state.state
               /\ state'.name = state.name
               /\ state'.version = state.version
               /\ state'.code = state.code
        /\ (state'.state = "paused" /\ state.state # "paused") =>
             state.state = "playing"]_vars

\* A /pause request was answered while nothing had ever played: the state is
\* still stopped.
C20_Witness ==
  /\ \E h \in Handlers : status[h] = [op |-> "pause", code |-> 200]
  /\ \A h \in Handlers : status[h].op \in {"pause", "none"}
  /\ NoneHandling
  /\ engine = NoEngine
  /\ state = Stopped

\* C21: a /evaluate request that succeeds sets PlaybackState to playing with
\* the request's code whatever the state was, takes the name from the request
\* when it is a non-empty string and the version when it is non-zero, and
\* otherwise keeps the name and the version the state had; no step of the
\* handler stops the engine; a /evaluate request that fails or is refused
\* leaves PlaybackState as it was.
C21_EvaluateCommits ==
  [][\A h \in Handlers :
       /\ (hreq[h].op = "evaluate" /\ Answers(h, "evaluate", 200)) =>
            LET body == hreq[h].body
            IN /\ state'.state = "playing"
               /\ state'.code = body.code
               /\ state'.name =
                    IF body.name \in {NoName, Name("")} THEN state.name ELSE body.name
               /\ state'.version =
                    IF body.version \in {Undefined, Integer(0)}
                    THEN state.version
                    ELSE body.version
               /\ engine'.run = "playing"
       /\ (hreq[h].op = "evaluate" /\ Answers(h, "evaluate", 500)) =>
            state' = state /\ engine' = engine
       /\ Answers(h, "evaluate", 400) => state' = state /\ engine' = engine
       /\ (hreq[h].op = "none" /\ hreq'[h].op = "evaluate") =>
            state' = state /\ engine' = engine
       /\ (hreq[h].op = "evaluate" /\ hreq'[h].op = "none") =>
            \/ Answers(h, "evaluate", 200)
            \/ Answers(h, "evaluate", 500)]_vars

\* C21 as stated: the name and the version of a successful /evaluate request
\* are recorded whenever the request carries them.
C21_EvaluateRecordsSupplied ==
  [][\A h \in Handlers :
       (hreq[h].op = "evaluate" /\ Answers(h, "evaluate", 200)) =>
         LET body == hreq[h].body
         IN /\ state'.name = IF body.name = NoName THEN state.name ELSE body.name
            /\ state'.version =
                 IF body.version = Undefined THEN state.version ELSE body.version]_vars

\* A /evaluate request with other code and neither name nor version succeeded
\* after a song had been paused: the state plays the new code under the
\* song's name and version.
C21_Witness ==
  /\ \E h \in Handlers : status[h] = [op |-> "evaluate", code |-> 200]
  /\ \E h \in Handlers : status[h] = [op |-> "pause", code |-> 200]
  /\ NoneHandling
  /\ state = [state |-> "playing", name |-> Name("s1"), version |-> Integer(1),
              code |-> Code(<<"b">>)]
  /\ engine = [run |-> "playing", code |-> Code(<<"b">>)]

\* ------------------------------------- properties: inactivity and shutdown

\* The requests the daemon's single timer is said to be reset by.
ResettingOps == {"play", "stop", "pause", "evaluate", "validate"}

\* A step in which the callback of the timer set at t runs.
TimerFires(t) == t \in timers /\ timers' = timers \ {t} /\ Serving'

\* C22: every play, stop, pause, evaluate and validate request that succeeds
\* restarts the inactivity timer from zero: when it is answered the one
\* pending timer is the one set at that moment; and the timer whose callback
\* runs is that latest one, at least the inactivity timeout after it was set.
C22_EverySuccessResets ==
  [][/\ \A h \in Handlers, op \in ResettingOps :
          Answers(h, op, 200) => timers' = {now} /\ inactivityTimer' = now
     /\ \A t \in 0 .. MaxIdleTime :
          TimerFires(t) => t = inactivityTimer /\ TimerDue(t)]_vars

\* The daemon process has ended after its cleanup: it is gone, no PID file
\* names it, and nothing sounds.
Exited ==
  /\ daemons[DaemonPid].state = "exited"
  /\ pidFile # DaemonPid
  /\ engine.run = "stopped"

\* The daemon's cleanup has begun and the process has not ended yet.
CleaningUp == daemons[DaemonPid].state \in {"cleanup", "closing"}

\* A pending timer is due; a pending timer is not due yet, as after a reset.
SomeTimerDue == \E t \in timers : TimerDue(t)
SomeTimerFresh == \E t \in timers : ~TimerDue(t)

\* C23: at most one inactivity timer is pending at any time; the callback of
\* a timer stops the engine; and once a pending timer is due, the daemon's
\* process ends with the engine stopped and the PID file removed, unless a
\* request resets the timer first, whatever PlaybackState is and whatever
\* health and current requests arrive meanwhile.
C23_InactivityShutdown ==
  /\ [](Cardinality(timers) <= 1)
  /\ [][\A t \in 0 .. MaxIdleTime : TimerFires(t) => engine'.run = "stopped"]_vars
  /\ (Serving /\ SomeTimerDue) ~> (Exited \/ SomeTimerFresh)
  /\ (CleaningUp /\ timers = {}) ~> Exited

\* The timer has run out while a song plays and a current request has been
\* answered: the cleanup is under way, with no timer pending.
C23_Witness ==
  /\ CleaningUp
  /\ timers = {}
  /\ state.state = "playing"
  /\ status["h1"] = [op |-> "current", code |-> 200]

\* C24: a SIGTERM or SIGINT that arrives after startup makes the daemon stop
\* the engine and remove the PID file before its process ends: the cleanup
\* begins with the engine stopped, the process ends only after the unlink,
\* a cleanup that has begun ends with the process gone, and once it is gone
\* no PID file names it and the daemon resolves as not running.
C24_SignalCleansUp ==
  /\ [](daemons[DaemonPid].state = "exited" =>
          pidFile # DaemonPid /\ HealthyDaemon = 0)
  /\ [][/\ (daemons[DaemonPid].state = "ready" /\ CleaningUp') =>
             engine'.run = "stopped"
        /\ (Serving /\ ~Serving') =>
             daemons[DaemonPid].state = "closing" /\ pidFile = 0]_vars
  /\ CleaningUp ~> Exited

\* The daemon has ended before any timer could be due: a signal ended it.
C24_Witness ==
  /\ Exited
  /\ now = 0
  /\ pidFile = 0
  /\ state.state = "playing"

\* ----------------------------------------- properties: finding the daemon

\* The PID file names a process that is alive and answers health requests.
Trustworthy ==
  /\ pidFile \in DaemonIds
  /\ daemons[pidFile].state \in {"ready", "cleanup", "closing"}

\* A step in which a daemon process is spawned.
Spawns == \E d \in DaemonIds : daemons[d].state = "none" /\ daemons'[d].state = "starting"

SinceSpawn(p) == (now - daemons[child[p]].at) * TickMs

\* The processes whose ensureDaemon has failed with the start timeout.
StartTimedOut == {p \in Procs : ret[p] = "DaemonStartFailed"}

\* C26: startDaemon's wait is bounded by 75 polls of 200 ms. It returns a
\* record only within those 15 s, and then a trustworthy one; when they are
\* over it throws the start-timeout error, which ensureDaemon passes on
\* without a record to send a request to, and withLock's finally removes the
\* marker of the daemon lock before the call ends.
C26_StartWaitBounded ==
  /\ [](\A p \in StartTimedOut :
          /\ info[p] = 0
          /\ pc[p] \in {"release", "done"}
          /\ pc[p] = "done" => ~(lock[DAEMON_LOCK].exists /\ lock[DAEMON_LOCK].by = p))
  /\ [][\A p \in Procs :
          /\ (pc[p] = "poll" /\ pc'[p] # "poll") =>
               /\ pc'[p] = "release"
               /\ IF SinceSpawn(p) >= 75 * 200
                  THEN p \in StartTimedOut' /\ info'[p] = 0
                  ELSE ret'[p] = "none" /\ info'[p] = pidFile /\ Trustworthy
          /\ (p \in StartTimedOut /\ pc[p] = "release" /\ pc'[p] # "release") =>
               pc'[p] = "done" /\ ~lock'[DAEMON_LOCK].exists]_vars

\* A command has given up on a daemon that never became healthy, and a later
\* command has taken the daemon lock and spawned anew.
C26_Witness ==
  \E p \in StartTimedOut, q \in Procs :
    /\ pc[p] = "done"
    /\ daemons[child[p]].state = "starting"
    /\ pc[q] = "poll"
    /\ start[q] * TickMs >= 75 * 200
    /\ lock[DAEMON_LOCK] = Marker(q, start[q])

\* The processes that run client stop or client pause.
Stoppers == {p \in Procs : req[p].op \in {"stop", "pause"}}

\* C27: client stop and pause throw the no-active-session error when the
\* recorded daemon is not trustworthy when they look, and then send nothing;
\* and no step of theirs, whatever else goes on, spawns a process, touches
\* the daemon lock or writes the PID file.
C27_StopNeverLaunches ==
  /\ [](\A p \in Stoppers :
          /\ child[p] = 0
          /\ pc[p] \in {"reread", "post", "done"}
          /\ ret[p] = "NoActiveSession" => pc[p] = "done" /\ info[p] = 0)
  /\ [][\A p \in Procs :
          /\ (pc[p] = "idle" /\ p \in Stoppers') =>
               IF Trustworthy
               THEN pc'[p] = "reread" /\ ret'[p] = "none"
               ELSE pc'[p] = "done" /\ ret'[p] = "NoActiveSession"
          /\ ((p \in Stoppers \/ p \in Stoppers') /\ pc'[p] # pc[p]) =>
               /\ ~Spawns
               /\ lock' = lock
               /\ daemons' = daemons
               /\ pidFile' = pidFile]_vars

\* client stop has failed with no active session while a daemon another
\* command spawned was starting, not yet healthy.
C27_Witness ==
  \E p \in Stoppers, q \in Procs :
    /\ ret[p] = "NoActiveSession"
    /\ pc[q] = "poll"
    /\ daemons[child[q]].state = "starting"
    /\ pidFile = 0

\* ------------------------------------------------- properties: commands

\* The versions of the song the command works on.
CmdVersions == LoadSongs(file).songs[cmd.name].versions

\* The sequence command is at a step; it has gone through all its steps.
InSequence == cmd.op = "sequence" /\ cmd.pc \in {"promote", "evaluate", "await"}
SequenceDone == cmd.op = "sequence" /\ cmd.pc = "done" /\ cmd.exit = 0

\* C28: the sequence command takes its steps in list order, each a
\* promoteVersion and then an evaluate of the promoted code under the new
\* version number: at step i the song has grown by i versions (i - 1 before
\* the promotion), the request sent carries the code and the number of the
\* version just created, and when all k steps have succeeded on a song of T
\* versions the song has T + k versions, the j-th new one a copy of the
\* version the j-th step names, and PlaybackState plays version T + k of the
\* song with that version's code.
C28_SequenceInOrder ==
  /\ InSequence =>
       /\ Len(CmdVersions) =
            cmd.t0 + (IF cmd.pc = "promote" THEN cmd.i - 1 ELSE cmd.i)
       /\ hreq[CmdHandler].op = "evaluate" =>
            hreq[CmdHandler].body =
              [code |-> Code(CmdVersions[cmd.t0 + cmd.i].code),
               name |-> Name(cmd.name),
               version |-> Integer(cmd.t0 + cmd.i)]
  /\ SequenceDone =>
       LET k == Len(cmd.steps)
       IN /\ Len(CmdVersions) = cmd.t0 + k
          /\ \A j \in 1 .. k :
               CmdVersions[cmd.t0 + j].code = CmdVersions[cmd.steps[j]].code
          /\ SubSeq(CmdVersions, 1, cmd.t0) =
               LoadSongs(SequenceFile).songs[cmd.name].versions
          /\ state = [state |-> "playing", name |-> Name(cmd.name),
                      version |-> Integer(cmd.t0 + k),
                      code |-> Code(CmdVersions[cmd.t0 + k].code)]

\* sequence s1 --versions [[1,0],[2,0]] is through on the song of two
\* versions: it has four, and version 4, a copy of version 2, plays.
C28_Witness ==
  /\ SequenceDone
  /\ cmd.steps = <<1, 2>>
  /\ Len(CmdVersions) = 4
  /\ state.version = Integer(4)
  /\ state.code = Code(<<"b">>)

\* The update command has stored its new code and the engine has found it
\* invalid.
UpdateNotPlayed ==
  cmd.op = "update" /\ cmd.pc = "done" /\ cmd.report = "SavedNotPlaying"

\* C29: the update command stores before it validates and plays. While the
\* code it stored awaits validation, and when the validation has found it
\* invalid, the song has one version more than before, the latest holding
\* the new code; in the second case the command has exited with status 1
\* reporting "saved but not playing", the only request the daemon has
\* answered is the validate, and the step that ended the command has changed
\* neither PlaybackState nor the engine nor the file.
C29_SavedNotPlaying ==
  /\ [](((cmd.op = "update" /\ cmd.pc = "validate") \/ UpdateNotPlayed) =>
          /\ Len(CmdVersions) = cmd.t0 + 1
          /\ CmdVersions[cmd.t0 + 1].code = cmd.code
          /\ cmd.version = cmd.t0 + 1
          /\ state.name # Name(cmd.name))
  /\ [](UpdateNotPlayed =>
          /\ cmd.exit = 1
          /\ hreq[CmdHandler].op = "none"
          /\ status[CmdHandler] = [op |-> "validate", code |-> 200])
  /\ [][(UpdateNotPlayed' /\ ~UpdateNotPlayed) =>
          /\ cmd.pc = "validate"
          /\ state' = state
          /\ engine' = engine
          /\ file' = file]_vars

\* update s1 --from b --to a was stored as version 3 and found invalid while
\* another song played: that song still plays.
C29_Witness ==
  /\ UpdateNotPlayed
  /\ Len(CmdVersions) = 3
  /\ CmdVersions[3].code = <<"a">>
  /\ state.state = "playing"
  /\ state.name = Name("s2")
  /\ engine.run = "playing"

\* ------------------------------------------ properties: stale lock markers

\* The process holds the lock by the marker that is there: it made it and
\* has not left withLock.
LiveHolder(l) ==
  /\ lock[l].exists
  /\ pc[lock[l].by] \in {"fn", "save", "release", "poll"}
  /\ LockPath(req[lock[l].by]) = l

\* C30: a waiting process removes the marker of another process only when
\* the marker is older than LOCK_TIMEOUT: the marker a live holder made less
\* than 5 s ago is never force-cleared, however long the waiting process has
\* waited behind earlier holders.
C30_OnlyStaleCleared ==
  [][\A p \in Procs :
       LET l == LockPath(req[p])
       IN (pc[p] = "rm" /\ pc'[p] # "rm" /\ LiveHolder(l) /\ lock[l].by # p) =>
            (now - lock[l].at) * TickMs > LOCK_TIMEOUT]_vars

\* ------------------------------------------ properties: the lock terminates

\* C31: under fair scheduling every process in withLock's loop enters its
\* critical section, also behind the marker of a holder that was killed, and
\* every process that has entered and is not killed removes the marker and
\* leaves withLock.
C31_LockTerminates ==
  /\ \A p \in Procs : Waiting(p) ~> Holding(p)
  /\ \A p \in Procs : Holding(p) ~> (pc[p] \in {"done", "killed"})

\* A process that waited has entered behind the marker of a killed holder.
C31_Witness ==
  \E p, q \in Procs :
    /\ pc[q] = "killed"
    /\ pc[p] = "fn"
    /\ lock[SONGS_LOCK] = Marker(p, now)
    /\ start[p] < now

\* ------------------------------------- properties: requests of one daemon

\* The handler has begun a play or evaluate request and has not answered it.
InProgress(h) == hreq[h].op # "none"

\* C32: control requests are handled one at a time: while the handling of
\* one request is in progress, no other request's handling touches the
\* engine or PlaybackState.
C32_NoInterleaving ==
  [][\A h \in Handlers :
       (InProgress(h) /\ hreq'[h] = hreq[h]) =>
         (state' = state /\ engine' = engine)]_vars

\* The requests that only read.
ReadingOps == {"health", "current", "validate"}

\* C33: health, current and validate requests leave PlaybackState as it was
\* (state, name, version and code), and a validate request leaves the engine
\* as it was: it starts, stops and replaces nothing.
C33_ReadsChangeNothing ==
  [][\A h \in Handlers, op \in ReadingOps, code \in {200, 400} :
       Answers(h, op, code) => (state' = state /\ engine' = engine)]_vars

\* A code has been validated while a song plays, and the song plays on.
C33_Witness ==
  \E h \in Handlers :
    /\ status[h] = [op |-> "validate", code |-> 200]
    /\ state.state = "playing"
    /\ engine.run = "playing"
    /\ engine.code = state.code

\* ------------------------------------------ properties: releasing the lock

\* C34: the rm of withLock's finally block removes only the marker the
\* process made itself: when its marker was force-cleared and another
\* process holds the lock by a marker of its own, that marker stays.
C34_ReleaseOwnMarker ==
  [][\A p \in Procs :
       LET l == LockPath(req[p])
       IN (pc[p] = "release" /\ pc'[p] = "done" /\ lock[l].exists /\ lock[l].by # p) =>
            lock'[l] = lock[l]]_vars

\* ------------------------------------------ properties: the daemon's record

\* C35: a daemon's cleanup removes the PID file only when the file records
\* that daemon: the record of another daemon that is alive stays.
C35_CleanupOwnRecord ==
  [][(/\ daemons[DaemonPid].state = "cleanup"
      /\ daemons'[DaemonPid].state = "closing"
      /\ pidFile # 0
      /\ pidFile # DaemonPid
      /\ pidFile \in Alive) => pidFile' = pidFile]_vars

\* ------------------------------------ properties: the state and the engine

\* C36: whenever no request is being handled and PlaybackState is playing,
\* the engine plays, and the code it plays is PlaybackState's code; so also
\* after a /play request that failed while another song played.
C36_StateAgreesWithEngine ==
  (NoneHandling /\ daemons[DaemonPid].state = "ready" /\ state.state = "playing") =>
    (engine.run = "playing" /\ engine.code = state.code)

\* C37: PlaybackState is well-formed in every state of the daemon, from
\* {state: stopped} at its start: when stopped it has no name, no version and
\* no code; when playing or paused its code is a non-empty string.
C37_StateWellFormed ==
  /\ state.state \in {"stopped", "playing", "paused"}
  /\ state.state = "stopped" =>
       (state.name = NoName /\ state.version = Undefined /\ state.code = NoCode)
  /\ state.state \in {"playing", "paused"} =>
       (state.code.kind = "string" /\ Len(state.code.val) > 0)

\* A song that played is paused, its code kept, after a request without code
\* was refused.
C37_Witness ==
  /\ state.state = "paused"
  /\ state.code = Code(<<"a">>)
  /\ \E h, g \in Handlers :
       /\ status[h] = [op |-> "pause", code |-> 200]
       /\ status[g] = [op |-> "play", code |-> 400]

\* ------------------------------------ properties: commands side by side

\* Both update commands have stored their version, had it validated and
\* evaluated, and have ended without an error.
BothUpdated ==
  \A p \in RaceProcs : req[p].op = "update" /\ pc[p] = "done" /\ ret[p] = "none"

\* C38: when two update commands on one song run at the same time and both
\* succeed, PlaybackState records the song's latest stored version and its
\* code.
C38_LatestVersionPlays ==
  BothUpdated =>
    LET versions == VersionsOf(file, "s1")
    IN /\ state.version = Integer(Len(versions))
       /\ state.code = Code(versions[Len(versions)].code)

\* ------------------------------------ properties: commands one at a time

\* No command runs: the last one has exited.
BetweenCommands == cmd.pc \in {"idle", "done"}

\* C39: whenever PlaybackState is playing or paused with a name, that name
\* is a key of the songs collection, after any commands run one at a time;
\* so also after the loaded song was renamed or deleted.
C39_LoadedSongExists ==
  (/\ BetweenCommands
   /\ Serving
   /\ state.state \in {"playing", "paused"}
   /\ state.name # NoName) => OwnSong(LoadSongs(file), state.name.val)

\* The step starts a daemon process.
Spawned ==
  \E d \in DaemonIds :
    /\ daemons[d].state \notin {"starting", "ready", "cleanup", "closing"}
    /\ daemons'[d].state \in {"starting", "ready"}

\* The daemon named by the PID file answers, and its state names the song
\* as playing or paused.
LoadedInDaemon(name) ==
  IsDaemonRunning /\ state.name = Name(name) /\ state.state # "stopped"

====
